---- MODULE Spec2Model ----
(***************************************************************************)
(* A model of the hexy hex-dump engine (src/hexy.h): the byte-stream       *)
(* layer (hexy_get, hexy_put, hexy_puts), the numeral converter, the line  *)
(* formatter and the dump driver hexy().                                   *)
(*                                                                         *)
(* Characters are their ASCII codes.  A C string is the sequence of its    *)
(* codes without the terminating NUL.  hexy_unum_t and the address counter *)
(* are 64 bits wide (LP64); a 64-bit value is kept as four 16-bit limbs,   *)
(* least significant first, so that the arithmetic keeps its width.        *)
(*                                                                         *)
(* One call of hexy() is a sequence of steps: Call (defaulting and         *)
(* validation), Pull (one hexy_get of the read loop), PrintAddress and     *)
(* FormatBody (the formatter lays out the characters of the line in the    *)
(* order the code pushes them), Push (one hexy_put), Advance (the overflow *)
(* check and the address increment) and Finish (the end-of-line after the  *)
(* loop and the return).                                                   *)
(***************************************************************************)
EXTENDS Integers, Sequences, FiniteSets, TLC

VARIABLES
    h,        \* the hexy_t structure, its hexy_io_t included
    src,      \* the object behind io.in : a hexy_buffer_t and how it ends
    sink,     \* what the put callback accepted, each character with the
              \* place of the formatter that pushed it and its line number
    pc,       \* position inside hexy(): "idle" when no call is running
    i,        \* the index of the read loop of hexy()
    end,      \* the `end` flag of hexy()
    pending,  \* characters the formatter has still to push for this stage
    abort,    \* return code of a formatter stage that fails without a push
    after,    \* the stage that follows once `pending` is drained
    ret,      \* the value returned by the last hexy() call
    calls,    \* number of hexy() calls started
    lineNo,   \* number of lines whose formatting has started in this call
    getCalls, \* number of invocations of the underlying get callback
    putCalls, \* number of invocations of the underlying put callback
    sinkFailed, \* the put callback has reported a failure
    srcErrSeen, \* the get callback has reported an error (not end-of-input)
    overflowed, \* the address overflow check of hexy() has fired
    entry,    \* the structure and the counters as the running (or last)
              \* hexy() call found them, and the structure as the first
              \* call found it
    num,      \* a direct call of one of the public helper functions: its
              \* arguments and, once made, its results
    peer      \* a second dump session, suspended between two of its steps:
              \* its own hexy_t, streams and position inside hexy()

vars == <<h, src, sink, pc, i, end, pending, abort, after, ret, calls,
          lineNo, getCalls, putCalls, sinkFailed, srcErrSeen, overflowed, entry,
          num, peer>>

\* ------------------------------------------------------------------------
\* Bounds of the model
\* ------------------------------------------------------------------------
MaxLen == 5      \* longest input the source holds
MaxCalls == 2    \* hexy() calls made on one hexy_t
PairCalls == 1   \* calls of each of two sessions that are followed in turn
MaxBase == 37    \* largest base handed to the helper functions directly

\* ------------------------------------------------------------------------
\* Program constants
\* ------------------------------------------------------------------------
HEXY_MAX_NCOLS == 32
HEXY_MAX_GROUP == 8
HEXY_NON_GRAPHIC_REPLACEMENT_CHAR == 46
HEXY_SEP_ADR == <<58, 9>>
HEXY_SEP_EOL == <<10>>
HEXY_SEP_CH1 == <<32, 32, 124>>
HEXY_SEP_CH2 == <<124>>
HEXY_SEP_BYT == <<32>>
hexy_string_digits ==
    <<48, 49, 50, 51, 52, 53, 54, 55, 56, 57,
      97, 98, 99, 100, 101, 102, 103, 104, 105, 106, 107, 108, 109,
      110, 111, 112, 113, 114, 115, 116, 117, 118, 119, 120, 121, 122>>

\* a NULL char pointer: no C string has a negative character code
NULL == <<-1>>

\* sizeof(h->buf)
BufSize == HEXY_MAX_NCOLS * HEXY_MAX_GROUP

\* ------------------------------------------------------------------------
\* 64-bit unsigned arithmetic on four 16-bit limbs, least significant first
\* ------------------------------------------------------------------------
LimbBase == 2^16

U64(n) == <<n % LimbBase, (n \div LimbBase) % LimbBase, 0, 0>>

U64Max == <<65535, 65535, 65535, 65535>>

\* a - n for a small n that does not borrow out of the lowest limb
U64Below(a, n) == <<a[1] - n, a[2], a[3], a[4]>>

\* the sum taken as a + 1 whatever n is
U64AddM(a, n) ==
    IF a[1] + 1 < LimbBase THEN <<a[1] + 1, a[2], a[3], a[4]>>
    ELSE <<0, a[2] + 1, a[3], a[4]>>

\* uint64_t addition a + n, reduced modulo 2^64
U64Add(a, n) ==
    LET s1 == a[1] + n
        s2 == a[2] + (s1 \div LimbBase)
        s3 == a[3] + (s2 \div LimbBase)
        s4 == a[4] + (s3 \div LimbBase)
    IN <<s1 % LimbBase, s2 % LimbBase, s3 % LimbBase, s4 % LimbBase>>

\* a <= b on uint64_t
U64Leq(a, b) ==
    IF a[4] # b[4] THEN a[4] < b[4]
    ELSE IF a[3] # b[3] THEN a[3] < b[3]
    ELSE IF a[2] # b[2] THEN a[2] < b[2]
    ELSE a[1] <= b[1]

\* a / d and a % d for a divisor d in 1..32767
U64Div(a, d) ==
    LET c4 == a[4]
        c3 == (c4 % d) * LimbBase + a[3]
        c2 == (c3 % d) * LimbBase + a[2]
        c1 == (c2 % d) * LimbBase + a[1]
    IN <<c1 \div d, c2 \div d, c3 \div d, c4 \div d>>

U64Mod(a, d) ==
    LET c4 == a[4]
        c3 == (c4 % d) * LimbBase + a[3]
        c2 == (c3 % d) * LimbBase + a[2]
        c1 == (c2 % d) * LimbBase + a[1]
    IN c1 % d

U64Zero == <<0, 0, 0, 0>>

\* ------------------------------------------------------------------------
\* Character classification and the numeral converter
\* ------------------------------------------------------------------------
hexy_is_valid_base(base) == base >= 2 /\ base <= 36

\* swaps r[i] and r[last - i] for i < length/2 (indices are 1-based here)
hexy_reverse(r, length) ==
    [k \in 1..Len(r) |->
        IF k <= length /\ (k <= length \div 2 \/ k > length - (length \div 2))
        THEN r[length + 1 - k]
        ELSE r[k]]

\* the test of isprint: the space counts as printable
hexy_isgraphM(ch) == ch >= 32 /\ ch < 127

hexy_isgraph(ch) == ch > 32 /\ ch < 127

hexy_islower(ch) == ch >= 97 /\ ch <= 122

hexy_isupper(ch) == ch >= 65 /\ ch <= 90

\* ch ^ 0x20 : bit 5 of ch is flipped
Xor32(ch) == IF (ch \div 32) % 2 = 1 THEN ch - 32 ELSE ch + 32

\* hexy_toupper testing for the wrong case
hexy_toupperM(ch) == IF hexy_isupper(ch) THEN Xor32(ch) ELSE ch

hexy_toupper(ch) == IF hexy_islower(ch) THEN Xor32(ch) ELSE ch

hexy_tolower(ch) == IF hexy_isupper(ch) THEN Xor32(ch) ELSE ch

\* the do-while loop of hexy_unum_to_string: digits, least significant first
RECURSIVE UnumDigits(_, _, _)
UnumDigits(dv, base, upper) ==
    LET ch == hexy_string_digits[U64Mod(dv, base) + 1]
        c  == IF upper THEN hexy_toupper(ch) ELSE ch
        q  == U64Div(dv, base)
    IN IF q = U64Zero THEN <<c>> ELSE <<c>> \o UnumDigits(q, base, upper)

\* hexy_unum_to_string without the final reversal
hexy_unum_to_stringM(in, base, upper) ==
    IF ~hexy_is_valid_base(base)
    THEN [rc |-> -333, s |-> <<>>]
    ELSE [rc |-> 0, s |-> UnumDigits(in, base, upper)]

\* [rc, s] : the return value and the string left in buf
hexy_unum_to_string(in, base, upper) ==
    IF ~hexy_is_valid_base(base)
    THEN [rc |-> -333, s |-> <<>>]
    ELSE LET d == UnumDigits(in, base, upper)
         IN [rc |-> 0, s |-> hexy_reverse(d, Len(d))]

\* the loop counting the divisions that leave a quotient: one less than
\* the number of digits
RECURSIVE hexy_unsigned_integer_logarithmM(_, _)
hexy_unsigned_integer_logarithmM(n, base) ==
    LET q == U64Div(n, base)
    IN IF q = U64Zero THEN 0
       ELSE 1 + hexy_unsigned_integer_logarithmM(q, base)

\* do r++; while ((n /= base)); for a base of at least 2
RECURSIVE hexy_unsigned_integer_logarithm(_, _)
hexy_unsigned_integer_logarithm(n, base) ==
    LET q == U64Div(n, base)
    IN IF q = U64Zero THEN 1
       ELSE 1 + hexy_unsigned_integer_logarithm(q, base)

HEXY_MAX(X, Y) == IF X < Y THEN Y ELSE X

HEXY_MIN(X, Y) == IF X < Y THEN X ELSE Y

Repeat(ch, n) == [k \in 1..n |-> ch]

\* hexy_print_number: the characters it pushes, in order, and its return
\* value when every push succeeds
hexy_print_number(u, base, char_count, char_to_repeat, left_align, upper) ==
    LET lead == IF left_align THEN Repeat(char_to_repeat, HEXY_MAX(char_count, 0))
                ELSE <<>>
        str  == hexy_unum_to_string(u, base, upper)
        tail == IF left_align THEN <<>>
                ELSE Repeat(char_to_repeat, HEXY_MAX(char_count, 0))
    IN IF str.rc < 0
       THEN [rc |-> -470, pad |-> lead, dig |-> <<>>]
       ELSE [rc |-> 0, pad |-> lead, dig |-> str.s \o tail]

\* hexy_aligned_print_number writing leading_zeros characters whatever the
\* width of the number
hexy_aligned_print_numberM(u, base, max, leading_zeros, leading_char, upper) ==
    hexy_print_number(u, base, HEXY_MAX(0, leading_zeros), leading_char, TRUE, upper)

\* hexy_aligned_print_number, for a base of at least 2
hexy_aligned_print_number(u, base, max, leading_zeros, leading_char, upper) ==
    LET mint == hexy_unsigned_integer_logarithm(max, base)
                - hexy_unsigned_integer_logarithm(u, base)
        lz1  == HEXY_MAX(0, leading_zeros)
        lz2  == HEXY_MIN(mint, lz1)
    IN hexy_print_number(u, base, lz2, leading_char, TRUE, upper)

\* ------------------------------------------------------------------------
\* The byte source and the configuration a caller can hand to hexy()
\* ------------------------------------------------------------------------
\* bytes the inputs are cut from
Tape == <<65, 66, 10, 1, 2, 3, 255, 32, 127, 126, 0, 200>>

Starts == {1, 4}

Inputs == {SubSeq(Tape, s, s + n - 1) : s \in Starts, n \in 0..MaxLen}

\* a source holds its bytes like a hexy_buffer_t; `err` tells whether the
\* negative value it returns once exhausted stands for an error (a failed
\* read) or for end-of-input.  The callback returns a negative int for both.
Sources ==
    {[b |-> d, used |-> 0, err |-> FALSE] : d \in Inputs}
    \cup {[b |-> d, used |-> 0, err |-> TRUE] : d \in {<<>>, <<65>>, <<65, 66, 10>>}}

DefaultSeps ==
    [adr |-> HEXY_SEP_ADR, eol |-> HEXY_SEP_EOL, byt |-> HEXY_SEP_BYT,
     ch1 |-> HEXY_SEP_CH1, ch2 |-> HEXY_SEP_CH2]

NullSeps == [adr |-> NULL, eol |-> NULL, byt |-> NULL, ch1 |-> NULL, ch2 |-> NULL]

\* a caller's own separators; an empty string is not NULL
CustomSeps ==
    [adr |-> <<61>>, eol |-> <<13, 10>>, byt |-> <<>>, ch1 |-> <<60>>, ch2 |-> NULL]

Geom(b, ab, n, g, ini) == [base |-> b, abase |-> ab, ncols |-> n, group |-> g, init |-> ini]

\* in-range geometries, the all-zero one (every default applies) included
GoodGeoms ==
    {Geom(0, 0, 0, 0, FALSE), Geom(16, 16, 1, 1, TRUE), Geom(16, 0, 2, 1, FALSE),
     Geom(16, 10, 1, 2, TRUE), Geom(2, 16, 2, 2, FALSE)}

\* geometries with one field out of range
BadGeoms ==
    {Geom(37, 0, 0, 0, FALSE), Geom(1, 0, 2, 1, FALSE), Geom(37, 16, 2, 1, TRUE),
     Geom(16, 16, 0, 1, TRUE), Geom(16, 0, 0, 1, FALSE), Geom(16, 16, 33, 1, FALSE),
     Geom(16, 16, 2, 9, FALSE), Geom(16, 16, 2, 0, TRUE),
     Geom(16, 37, 2, 1, FALSE), Geom(16, 1, 2, 1, FALSE), Geom(16, 0, 2, 1, TRUE),
     Geom(0, 37, 0, 0, FALSE)}

Flags(c, a, n, u, r) ==
    [chars_off |-> c, addresses_off |-> a, newlines_off |-> n,
     uppercase_on |-> u, rev_grp_on |-> r]

AllFlags ==
    {Flags(c, a, n, FALSE, r) : c \in BOOLEAN, a \in BOOLEAN, n \in BOOLEAN, r \in BOOLEAN}

FewFlags ==
    {Flags(FALSE, FALSE, FALSE, FALSE, FALSE), Flags(TRUE, TRUE, TRUE, FALSE, FALSE),
     Flags(FALSE, TRUE, FALSE, FALSE, TRUE)}

\* starting addresses near the top of the 64-bit range
HighAddresses == {U64Max, U64Below(U64Max, 1), U64Below(U64Max, 2), U64Below(U64Max, 4)}

Config(g, f, s, a) == [geom |-> g, flags |-> f, seps |-> s, address |-> a]

\* an initialized structure has its separators set; a fresh one may leave
\* them NULL
SepsFor(g) == IF g.init THEN DefaultSeps ELSE NullSeps

Configs ==
    {Config(g, f, SepsFor(g), U64(0)) : g \in GoodGeoms, f \in AllFlags}
    \cup {Config(g, f, SepsFor(g), U64(0)) : g \in BadGeoms, f \in FewFlags}
    \cup {Config(g, f, SepsFor(g), a) :
            g \in {Geom(16, 16, 1, 1, TRUE), Geom(16, 0, 2, 1, FALSE)},
            f \in {Flags(FALSE, FALSE, FALSE, FALSE, FALSE)}, a \in HighAddresses}
    \cup {Config(g, Flags(FALSE, FALSE, FALSE, TRUE, r), CustomSeps, U64(65535)) :
            g \in {Geom(0, 0, 0, 0, FALSE), Geom(16, 10, 1, 2, FALSE)}, r \in BOOLEAN}
    \cup {Config(Geom(16, 16, HEXY_MAX_NCOLS, HEXY_MAX_GROUP, TRUE),
                  Flags(FALSE, FALSE, FALSE, FALSE, r), DefaultSeps, U64(0)) :
            r \in BOOLEAN}

\* the hexy_t a caller builds from a configuration: a zeroed hexy_io_t and
\* an empty line buffer
MkHexy(c) ==
    [io |-> [read |-> 0, wrote |-> 0, error |-> 0],
     address |-> c.address, buf_used |-> 0, buf |-> <<>>,
     sep_adr |-> c.seps.adr, sep_eol |-> c.seps.eol, sep_byt |-> c.seps.byt,
     sep_ch1 |-> c.seps.ch1, sep_ch2 |-> c.seps.ch2,
     init |-> c.geom.init,
     chars_off |-> c.flags.chars_off, addresses_off |-> c.flags.addresses_off,
     newlines_off |-> c.flags.newlines_off, uppercase_on |-> c.flags.uppercase_on,
     rev_grp_on |-> c.flags.rev_grp_on,
     base |-> c.geom.base, abase |-> c.geom.abase,
     group |-> c.geom.group, ncols |-> c.geom.ncols]

\* ------------------------------------------------------------------------
\* Defaulting and validation
\* ------------------------------------------------------------------------
\* validation with only the upper limit of the column count
hexy_validateM(hh) ==
    IF hh.io.error # 0 THEN -555
    ELSE IF ~hexy_is_valid_base(hh.base) THEN -557
    ELSE IF hh.ncols > HEXY_MAX_NCOLS THEN -559
    ELSE IF hh.buf_used > BufSize THEN -561
    ELSE IF hh.group < 1 \/ hh.group > HEXY_MAX_GROUP THEN -563
    ELSE 0

hexy_validate(hh) ==
    IF hh.io.error # 0 THEN -555
    ELSE IF ~hexy_is_valid_base(hh.base) THEN -557
    ELSE IF hh.ncols < 1 \/ hh.ncols > HEXY_MAX_NCOLS THEN -559
    ELSE IF hh.buf_used > BufSize THEN -561
    ELSE IF hh.group < 1 \/ hh.group > HEXY_MAX_GROUP THEN -563
    ELSE 0

\* hexy_config_default substituting the defaults whatever the init flag
hexy_config_defaultM(hh) ==
    LET d == [hh EXCEPT !.ncols = IF hh.ncols # 0 THEN hh.ncols ELSE 16,
                        !.group = IF hh.group # 0 THEN hh.group ELSE 1,
                        !.abase = IF hh.abase # 0 THEN hh.abase ELSE hh.base]
    IN IF hexy_validate(d) < 0 THEN [rc |-> -1, h |-> d]
       ELSE [rc |-> 0, h |-> [d EXCEPT !.init = TRUE]]

\* [rc, h] : the return value and the structure as hexy_config_default
\* leaves it
hexy_config_default(hh) ==
    IF hh.init THEN [rc |-> hexy_validate(hh), h |-> hh]
    ELSE LET b == IF hh.base # 0 THEN hh.base ELSE 16
             d == [hh EXCEPT
                     !.base = b,
                     !.ncols = IF hh.ncols # 0 THEN hh.ncols ELSE 16,
                     !.abase = IF hh.abase # 0 THEN hh.abase ELSE b,
                     !.sep_adr = IF hh.sep_adr # NULL THEN hh.sep_adr ELSE HEXY_SEP_ADR,
                     !.sep_eol = IF hh.sep_eol # NULL THEN hh.sep_eol ELSE HEXY_SEP_EOL,
                     !.sep_ch1 = IF hh.sep_ch1 # NULL THEN hh.sep_ch1 ELSE HEXY_SEP_CH1,
                     !.sep_ch2 = IF hh.sep_ch2 # NULL THEN hh.sep_ch2 ELSE HEXY_SEP_CH2,
                     !.sep_byt = IF hh.sep_byt # NULL THEN hh.sep_byt ELSE HEXY_SEP_BYT,
                     !.group = IF hh.group # 0 THEN hh.group ELSE 1]
         IN IF hexy_validate(d) < 0 THEN [rc |-> -1, h |-> d]
            ELSE [rc |-> 0, h |-> [d EXCEPT !.init = TRUE]]

\* ------------------------------------------------------------------------
\* The line formatter: the characters one line pushes, in the order of the
\* code, each with the place that pushes it
\* ------------------------------------------------------------------------
Tagged(s, t) == [k \in 1..Len(s) |-> [ch |-> s[k], tag |-> t]]

\* const int byte_align = hexy_unsigned_integer_logarithm(255, h->base)
ByteAlign(hh) == hexy_unsigned_integer_logarithm(U64(255), hh.base)

\* const int length = h->ncols * h->group
LineLength(hh) == hh.ncols * hh.group

\* the end-of-line decided by newlines_off alone
hexy_newlines_enabledM(hh) == ~hh.newlines_off

hexy_newlines_enabled(hh) ==
    IF ~hh.newlines_off THEN TRUE
    ELSE IF ~hh.chars_off THEN TRUE
    ELSE IF ~hh.addresses_off THEN TRUE
    ELSE FALSE

\* hexy_newline writing nothing when called after the loop
hexy_newlineM(hh, t) ==
    IF hexy_newlines_enabled(hh) /\ t # "eol2" THEN Tagged(hh.sep_eol, t) ELSE <<>>

hexy_newline(hh, t) ==
    IF hexy_newlines_enabled(hh) THEN Tagged(hh.sep_eol, t) ELSE <<>>

\* hexy_spaces stopping one space short
hexy_spacesM(spaces, t) == Tagged(Repeat(32, HEXY_MAX(spaces - 1, 0)), t)

hexy_spaces(spaces, t) == Tagged(Repeat(32, HEXY_MAX(spaces, 0)), t)

hexy_print_byte(ch) ==
    <<[ch |-> IF hexy_isgraph(ch) THEN ch ELSE HEXY_NON_GRAPHIC_REPLACEMENT_CHAR,
       tag |-> "chr"]>>

\* the address field padded with the digit 0 instead of the space
hexy_print_addressM(hh, addr) ==
    IF hh.addresses_off THEN [rc |-> 0, out |-> <<>>]
    ELSE LET r == hexy_aligned_print_number(addr, hh.abase, U64(65535), 4, 48,
                                            hh.uppercase_on)
         IN IF r.rc < 0
            THEN [rc |-> -542, out |-> Tagged(r.pad, "apad")]
            ELSE [rc |-> 0,
                  out |-> Tagged(r.pad, "apad") \o Tagged(r.dig, "adig")
                          \o Tagged(hh.sep_adr, "sadr")]

\* hexy_print_address for an address base of at least 2: [rc, out]
hexy_print_address(hh, addr) ==
    IF hh.addresses_off THEN [rc |-> 0, out |-> <<>>]
    ELSE LET r == hexy_aligned_print_number(addr, hh.abase, U64(65535), 4, 32,
                                            hh.uppercase_on)
         IN IF r.rc < 0
            THEN [rc |-> -542, out |-> Tagged(r.pad, "apad")]
            ELSE [rc |-> 0,
                  out |-> Tagged(r.pad, "apad") \o Tagged(r.dig, "adig")
                          \o Tagged(hh.sep_adr, "sadr")]

\* the reversal applied to the line as a whole instead of group by group
ReverseGroupsM(buf, used, group) == hexy_reverse(buf, used)

\* the reversal loop of hexy(): every complete group of buf is reversed
ReverseGroups(buf, used, group) ==
    LET limit == used \div group
    IN [k \in 1..Len(buf) |->
          LET g == (k - 1) \div group
          IN IF g < limit
             THEN hexy_reverse(SubSeq(buf, g * group + 1, g * group + group), group)
                             [k - g * group]
             ELSE buf[k]]

\* the slots j of column i: stops at the first slot past the data
RECURSIVE GroupDigits(_, _, _)
GroupDigits(hh, c, j) ==
    LET idx == c * hh.group + j
    IN IF j >= hh.group \/ idx >= hh.buf_used THEN <<>>
       ELSE LET r == hexy_aligned_print_number(U64(hh.buf[idx + 1]), hh.base, U64(255),
                                               ByteAlign(hh), 48, hh.uppercase_on)
            IN Tagged(r.pad, "bzero") \o Tagged(r.dig, "bdig")
               \o GroupDigits(hh, c, j + 1)

\* the column loop writing the separator only after a column that holds data
RECURSIVE ColumnDigitsM(_, _)
ColumnDigitsM(hh, c) ==
    IF c >= hh.ncols THEN <<>>
    ELSE GroupDigits(hh, c, 0)
         \o (IF c * hh.group < hh.buf_used THEN Tagged(hh.sep_byt, "sbyt") ELSE <<>>)
         \o ColumnDigitsM(hh, c + 1)

\* the column loop of hexy()
RECURSIVE ColumnDigits(_, _)
ColumnDigits(hh, c) ==
    IF c >= hh.ncols THEN <<>>
    ELSE GroupDigits(hh, c, 0) \o Tagged(hh.sep_byt, "sbyt") \o ColumnDigits(hh, c + 1)

\* the character view reading the bytes in the order they were pulled: the
\* reversal of the groups undone
CharViewM(hh, k) ==
    LET b == ReverseGroups(hh.buf, hh.buf_used, hh.group)
    IN IF ~hh.rev_grp_on THEN [n \in 1..hh.buf_used |-> hexy_print_byte(hh.buf[n])[1]]
       ELSE [n \in 1..hh.buf_used |-> hexy_print_byte(b[n])[1]]

RECURSIVE CharView(_, _)
CharView(hh, k) ==
    IF k >= hh.buf_used THEN <<>>
    ELSE hexy_print_byte(hh.buf[k + 1]) \o CharView(hh, k + 1)

\* the character panel padded by one space for each missing byte, whatever
\* the width of a byte
CharPanelM(hh) ==
    IF hh.chars_off THEN <<>>
    ELSE LET elements == hh.ncols * hh.group
             missing  == elements - hh.buf_used
         IN hexy_spaces(missing, "pad")
            \o Tagged(hh.sep_ch1, "sch1")
            \o CharView(hh, 0)
            \o hexy_spaces(missing, "cpad")
            \o Tagged(hh.sep_ch2, "sch2")

\* the character panel of hexy()
CharPanel(hh) ==
    IF hh.chars_off THEN <<>>
    ELSE LET elements == hh.ncols * hh.group
             missing  == elements - hh.buf_used
         IN hexy_spaces(ByteAlign(hh) * missing, "pad")
            \o Tagged(hh.sep_ch1, "sch1")
            \o CharView(hh, 0)
            \o hexy_spaces(missing, "cpad")
            \o Tagged(hh.sep_ch2, "sch2")

\* the value hexy() returns when the push of a character fails
Eline(t) ==
    CASE t \in {"apad", "adig", "sadr"} -> -628
      [] t \in {"bzero", "bdig"} -> -656
      [] t = "sbyt" -> -659
      [] t = "pad" -> -668
      [] t = "sch1" -> -670
      [] t = "chr" -> -673
      [] t = "cpad" -> -675
      [] t = "sch2" -> -677
      [] t = "eol" -> -680
      [] t = "eol2" -> -687

\* ------------------------------------------------------------------------
\* Direct calls of the helper functions
\* ------------------------------------------------------------------------
\* the largest value of a byte
ByteMax == 255

\* a zeroed hexy_io_t
NoIo == [read |-> 0, wrote |-> 0, error |-> 0]

\* arguments of a call not made yet
NoCall(v, base) ==
    [op |-> "none", v |-> v, base |-> base, upper |-> FALSE, off |-> FALSE,
     rc |-> 0, w |-> 0, pad |-> <<>>, dig |-> <<>>, sep |-> <<>>,
     io0 |-> NoIo, io |-> NoIo, called |-> FALSE, ok |-> FALSE]

\* the characters of out pushed from place t
CharsOf(out, t) ==
    LET sel == SelectSeq(out, LAMBDA e : e.tag = t)
    IN [k \in 1..Len(sel) |-> sel[k].ch]

\* ------------------------------------------------------------------------
\* The state after construction
\* ------------------------------------------------------------------------
\* no second session
NoPeer == [s |-> [pc |-> "none"], mixed |-> FALSE]

Init ==
    /\ h \in {MkHexy(c) : c \in Configs}
    /\ src \in Sources
    /\ sink = <<>>
    /\ pc = "idle"
    /\ i = 0
    /\ end = 0
    /\ pending = <<>>
    /\ abort = 0
    /\ after = "none"
    /\ ret = 0
    /\ calls = 0
    /\ lineNo = 0
    /\ getCalls = 0
    /\ putCalls = 0
    /\ sinkFailed = FALSE
    /\ srcErrSeen = FALSE
    /\ overflowed = FALSE
    /\ entry = [h |-> h, sinkLen |-> 0, gets |-> 0, puts |-> 0, first |-> h]
    /\ num = NoCall(U64(0), 16)
    /\ peer = NoPeer

\* ------------------------------------------------------------------------
\* The steps of hexy()
\* ------------------------------------------------------------------------
\* return from hexy() with value r
Return(r) ==
    /\ pc' = "idle"
    /\ ret' = r
    /\ pending' = <<>>
    /\ abort' = 0
    /\ after' = "none"

\* a formatter stage has laid out the characters pend; once they are pushed
\* the call returns ab if ab is negative, returns 0 if aft is "idle", and
\* goes on with stage aft otherwise
Continue(pend, ab, aft) ==
    IF pend # <<>>
    THEN /\ pc' = "out"
         /\ pending' = pend
         /\ abort' = ab
         /\ after' = aft
         /\ ret' = ret
    ELSE IF ab < 0 THEN Return(ab)
    ELSE IF aft = "idle" THEN Return(0)
    ELSE /\ pc' = aft
         /\ pending' = <<>>
         /\ abort' = 0
         /\ after' = "none"
         /\ ret' = ret

\* the file main() opens for a later pass
NextFile == [b |-> SubSeq(Tape, 4, 6), used |-> 0, err |-> FALSE]

\* h->io.in before a call: the source the structure was built with on the
\* first call, that source or a newly opened one on a later call
Rebinds(s, n) == IF n = 0 THEN {s} ELSE {s, NextFile}

\* hexy(): hexy_config_default and the entry into the first line; the
\* caller may have bound a new source
Call ==
    /\ pc = "idle"
    /\ calls < MaxCalls
    /\ calls' = calls + 1
    /\ lineNo' = 0
    /\ LET r == hexy_config_default(h)
       IN IF r.rc < 0
          THEN /\ h' = r.h
               /\ Return(-608)
               /\ UNCHANGED <<i, end>>
          ELSE /\ h' = [r.h EXCEPT !.buf_used = 0]
               /\ pc' = "read"
               /\ i' = 0
               /\ end' = 0
               /\ UNCHANGED <<pending, abort, after, ret>>
    /\ entry' = [h |-> h, sinkLen |-> Len(sink), gets |-> getCalls, puts |-> putCalls,
                 first |-> IF calls = 0 THEN h ELSE entry.first]
    /\ src' \in Rebinds(src, calls)
    /\ UNCHANGED <<sink, getCalls, putCalls, sinkFailed, srcErrSeen, overflowed>>
    /\ UNCHANGED <<num, peer>>

\* a counter that counts every call of the callback
CountedM(n, r) == n + 1

\* io->read += r >= 0 and io->wrote += r >= 0
Counted(n, r) == n + (IF r >= 0 THEN 1 ELSE 0)

\* the get callback on a source: [r, src]
SourceGet(s) ==
    IF s.used >= Len(s.b) THEN [r |-> -1, src |-> s]
    ELSE [r |-> s.b[s.used + 1], src |-> [s EXCEPT !.used = s.used + 1]]

\* hexy_get recording a negative result of the callback as a stream error
hexy_getM(io, s) ==
    IF io.error # 0 THEN [r |-> -375, io |-> io, src |-> s, called |-> FALSE]
    ELSE LET g == SourceGet(s)
         IN [r |-> g.r,
             io |-> [io EXCEPT !.read = Counted(io.read, g.r),
                               !.error = IF g.r < 0 THEN -1 ELSE io.error],
             src |-> g.src, called |-> TRUE]

\* hexy_get: [r, io, src, called]
hexy_get(io, s) ==
    IF io.error # 0 THEN [r |-> -375, io |-> io, src |-> s, called |-> FALSE]
    ELSE LET g == SourceGet(s)
         IN [r |-> g.r,
             io |-> [io EXCEPT !.read = Counted(io.read, g.r)],
             src |-> g.src, called |-> TRUE]

\* h->buf[h->buf_used++] = ch
BufStore(hh, ch) ==
    [hh EXCEPT !.buf = IF hh.buf_used < Len(hh.buf)
                       THEN [hh.buf EXCEPT ![hh.buf_used + 1] = ch]
                       ELSE Append(hh.buf, ch),
               !.buf_used = hh.buf_used + 1]

\* the read loop without its early exit: an empty line is formatted too
EndAtLineStartM(e, ii) == FALSE

\* if (end && !i) goto done
EndAtLineStart(e, ii) == e # 0 /\ ii = 0

\* one iteration of the read loop of hexy()
Pull ==
    /\ pc = "read"
    /\ LET g  == hexy_get(h.io, src)
           hg == [h EXCEPT !.io = g.io]
       IN /\ src' = g.src
          /\ getCalls' = getCalls + (IF g.called THEN 1 ELSE 0)
          /\ srcErrSeen' = (srcErrSeen \/ (g.called /\ g.r < 0 /\ src.err))
          /\ IF g.r < 0
             THEN /\ end' = 1
                  /\ h' = hg
                  /\ i' = i
                  /\ IF EndAtLineStart(1, i)
                     THEN Return(0)
                     ELSE /\ pc' = "addr"
                          /\ UNCHANGED <<pending, abort, after, ret>>
             ELSE /\ end' = end
                  /\ h' = BufStore(hg, g.r)
                  /\ i' = i + 1
                  /\ pc' = IF i + 1 < LineLength(h) THEN "read" ELSE "addr"
                  /\ UNCHANGED <<pending, abort, after, ret>>
    /\ UNCHANGED <<sink, calls, lineNo, putCalls, sinkFailed, overflowed, entry>>
    /\ UNCHANGED <<num, peer>>

\* hexy_print_address(h, h->address); an address base of 1 never leaves the
\* loop of hexy_unsigned_integer_logarithm and an address base of 0 divides
\* by zero
PrintAddress ==
    /\ pc = "addr"
    /\ lineNo' = lineNo + 1
    /\ IF ~h.addresses_off /\ h.abase = 1
       THEN /\ pc' = "spin"
            /\ UNCHANGED <<pending, abort, after, ret>>
       ELSE IF ~h.addresses_off /\ h.abase = 0
       THEN /\ pc' = "trap"
            /\ UNCHANGED <<pending, abort, after, ret>>
       ELSE LET r == hexy_print_address(h, h.address)
            IN Continue(r.out, IF r.rc < 0 THEN -628 ELSE 0, "body")
    /\ UNCHANGED <<h, src, sink, i, end, calls, getCalls, putCalls,
                   sinkFailed, srcErrSeen, overflowed, entry>>
    /\ UNCHANGED <<num, peer>>

\* the reversal, the byte columns, the character panel and the end-of-line
FormatBody ==
    /\ pc = "body"
    /\ LET hr == IF h.rev_grp_on
                 THEN [h EXCEPT !.buf = ReverseGroups(h.buf, h.buf_used, h.group)]
                 ELSE h
       IN /\ h' = hr
          /\ Continue(ColumnDigits(hr, 0) \o CharPanel(hr) \o hexy_newline(hr, "eol"),
                      0, "adv")
    /\ UNCHANGED <<src, sink, i, end, calls, lineNo, getCalls, putCalls,
                   sinkFailed, srcErrSeen, overflowed, entry>>
    /\ UNCHANGED <<num, peer>>

\* hexy_put forgetting to record the failure of the callback
hexy_putM(io, ch, ok) ==
    IF io.error # 0 THEN [r |-> -385, io |-> io, called |-> FALSE]
    ELSE LET r == IF ok THEN ch ELSE -1
         IN [r |-> r,
             io |-> [io EXCEPT !.wrote = Counted(io.wrote, r)],
             called |-> TRUE]

\* hexy_put, the put callback accepting the character (ok) or failing:
\* [r, io, called]
hexy_put(io, ch, ok) ==
    IF io.error # 0 THEN [r |-> -385, io |-> io, called |-> FALSE]
    ELSE LET r == IF ok THEN ch ELSE -1
         IN [r |-> r,
             io |-> [io EXCEPT !.wrote = Counted(io.wrote, r),
                               !.error = IF r < 0 THEN -1 ELSE io.error],
             called |-> TRUE]

\* the push of the next character of the line; a failed push makes every
\* caller up to hexy() return HEXY_ELINE
Push ==
    /\ pc = "out"
    /\ \E ok \in BOOLEAN :
         LET e == Head(pending)
             p == hexy_put(h.io, e.ch, ok)
         IN /\ h' = [h EXCEPT !.io = p.io]
            /\ putCalls' = putCalls + (IF p.called THEN 1 ELSE 0)
            /\ sinkFailed' = (sinkFailed \/ (p.called /\ p.r < 0))
            /\ IF p.r < 0
               THEN /\ sink' = sink
                    /\ Return(Eline(e.tag))
               ELSE /\ sink' = Append(sink, [ch |-> e.ch, tag |-> e.tag,
                                             line |-> lineNo])
                    /\ Continue(Tail(pending), abort, after)
    /\ UNCHANGED <<src, i, end, calls, lineNo, getCalls, srcErrSeen, overflowed, entry>>
    /\ UNCHANGED <<num, peer>>

\* the address advanced without the overflow check
AddressOverflowsM(address, used) == FALSE

\* if ((h->address + h->buf_used) <= h->address) : the sum is a uint64_t
AddressOverflows(address, used) == U64Leq(U64Add(address, used), address)

\* the overflow check and the increment of the address; the loop either
\* starts the next line or ends
Advance ==
    /\ pc = "adv"
    /\ IF AddressOverflows(h.address, h.buf_used)
       THEN /\ h' = [h EXCEPT !.io.error = -1]
            /\ overflowed' = TRUE
            /\ Return(-692)
            /\ UNCHANGED <<i, end>>
       ELSE /\ h' = [h EXCEPT !.address = U64Add(h.address, h.buf_used),
                              !.buf_used = 0]
            /\ overflowed' = overflowed
            /\ UNCHANGED <<pending, abort, after, ret, end>>
            /\ IF end # 0
               THEN /\ pc' = "tail"
                    /\ i' = i
               ELSE /\ pc' = "read"
                    /\ i' = 0
    /\ UNCHANGED <<src, sink, calls, lineNo, getCalls, putCalls,
                   sinkFailed, srcErrSeen, entry>>
    /\ UNCHANGED <<num, peer>>

\* the hexy_newline after the loop, then return 0
Finish ==
    /\ pc = "tail"
    /\ Continue(hexy_newline(h, "eol2"), 0, "idle")
    /\ UNCHANGED <<h, src, sink, i, end, calls, lineNo, getCalls, putCalls,
                   sinkFailed, srcErrSeen, overflowed, entry>>
    /\ UNCHANGED <<num, peer>>

Next == Call \/ Pull \/ PrintAddress \/ FormatBody \/ Push \/ Advance \/ Finish

Spec == Init /\ [][Next]_vars

\* the formatter stages: laying out the address and the rest of the line
Format == PrintAddress \/ FormatBody

\* a formatter stage can be taken
FormatEnabled == pc \in {"addr", "body"}

\* weak fairness of the formatter stages, with ENABLED <<Format>>_vars
\* written out as the test of the position it amounts to
FormatFair == []<>(~FormatEnabled) \/ []<><<Format>>_vars

\* a call that has started keeps running: each step of hexy() is taken as
\* long as it is possible; the caller is free to call again or not
RunningFair ==
    /\ WF_vars(Pull) /\ WF_vars(Push) /\ WF_vars(Advance) /\ WF_vars(Finish)
    /\ FormatFair

\* a sample of the configurations for the runs under fairness: in range, out
\* of range, and the address bases hexy_validate lets through
LiveConfigs ==
    {Config(g, Flags(FALSE, a, FALSE, FALSE, FALSE), SepsFor(g), U64(0)) :
        g \in {Geom(0, 0, 0, 0, FALSE), Geom(2, 16, 2, 2, FALSE),
               Geom(37, 0, 0, 0, FALSE), Geom(16, 16, 33, 1, FALSE),
               Geom(16, 37, 2, 1, FALSE), Geom(16, 1, 2, 1, FALSE),
               Geom(16, 0, 2, 1, TRUE)},
        a \in BOOLEAN}
    \cup {Config(Geom(16, 16, 1, 1, TRUE), Flags(FALSE, FALSE, FALSE, FALSE, FALSE),
                 DefaultSeps, U64Max)}

LiveSources ==
    {[b |-> d, used |-> 0, err |-> e] :
        d \in {<<>>, SubSeq(Tape, 1, 3)}, e \in BOOLEAN}

InitLive ==
    /\ Init
    /\ h \in {MkHexy(c) : c \in LiveConfigs}
    /\ src \in LiveSources

SpecLive == InitLive /\ [][Next]_vars /\ RunningFair

\* ------------------------------------------------------------------------
\* Two sessions: every object hexy() and its helpers touch is reached
\* through the hexy_t pointer they are given or is a local of hexy(); the
\* file has no writable object of static storage on the dump path
\* ------------------------------------------------------------------------
\* what one session consists of: its hexy_t, the objects behind its two
\* streams, the locals of its hexy() call and what is known about it
Session ==
    [h |-> h, src |-> src, sink |-> sink, pc |-> pc, i |-> i, end |-> end,
     pending |-> pending, abort |-> abort, after |-> after, ret |-> ret,
     calls |-> calls, lineNo |-> lineNo, getCalls |-> getCalls,
     putCalls |-> putCalls, sinkFailed |-> sinkFailed, srcErrSeen |-> srcErrSeen,
     overflowed |-> overflowed, entry |-> entry]

\* a session before its first call
NewSession(c, s) ==
    [h |-> MkHexy(c), src |-> s, sink |-> <<>>, pc |-> "idle", i |-> 0, end |-> 0,
     pending |-> <<>>, abort |-> 0, after |-> "none", ret |-> 0,
     calls |-> 0, lineNo |-> 0, getCalls |-> 0,
     putCalls |-> 0, sinkFailed |-> FALSE, srcErrSeen |-> FALSE,
     overflowed |-> FALSE,
     entry |-> [h |-> MkHexy(c), sinkLen |-> 0, gets |-> 0, puts |-> 0,
                first |-> MkHexy(c)]]

\* a session continuing with the loop index of hexy() kept in an object
\* both sessions use
ResumeM(saved, cur) == [saved EXCEPT !.i = cur.i]

\* what a session finds when it continues after the other one (cur) has
\* run: its own objects as it left them
Resume(saved, cur) == saved

\* the other session takes its next steps; the sessions are followed in
\* turn for their first PairCalls calls each
Switch ==
    /\ peer.s.pc # "none"
    /\ calls <= PairCalls
    /\ peer.s.calls <= PairCalls
    /\ LET s == Resume(peer.s, Session)
       IN /\ h' = s.h
          /\ src' = s.src
          /\ sink' = s.sink
          /\ pc' = s.pc
          /\ i' = s.i
          /\ end' = s.end
          /\ pending' = s.pending
          /\ abort' = s.abort
          /\ after' = s.after
          /\ ret' = s.ret
          /\ calls' = s.calls
          /\ lineNo' = s.lineNo
          /\ getCalls' = s.getCalls
          /\ putCalls' = s.putCalls
          /\ sinkFailed' = s.sinkFailed
          /\ srcErrSeen' = s.srcErrSeen
          /\ overflowed' = s.overflowed
          /\ entry' = s.entry
    /\ peer' = [s |-> Session,
                mixed |-> peer.mixed \/ (/\ calls = 1 /\ pc # "idle"
                                         /\ peer.s.calls = 1 /\ peer.s.pc # "idle")]
    /\ UNCHANGED num

PairSessions ==
    <<NewSession(Config(Geom(16, 16, 2, 1, TRUE),
                        Flags(FALSE, FALSE, FALSE, FALSE, FALSE), DefaultSeps, U64(0)),
                 [b |-> SubSeq(Tape, 1, 2), used |-> 0, err |-> FALSE]),
      NewSession(Config(Geom(10, 10, 1, 2, TRUE),
                        Flags(FALSE, FALSE, FALSE, TRUE, TRUE), DefaultSeps, U64(256)),
                 [b |-> SubSeq(Tape, 4, 6), used |-> 0, err |-> FALSE]),
      NewSession(Config(Geom(16, 16, 1, 1, TRUE),
                        Flags(TRUE, FALSE, FALSE, FALSE, FALSE), DefaultSeps, U64Max),
                 [b |-> SubSeq(Tape, 1, 1), used |-> 0, err |-> FALSE])>>

\* two different sessions, neither has made a call
InitPair ==
    /\ \E k \in 1..Len(PairSessions) :
         /\ h = PairSessions[k].h
         /\ src = PairSessions[k].src
         /\ entry = PairSessions[k].entry
         /\ peer = [s |-> PairSessions[(k % Len(PairSessions)) + 1], mixed |-> FALSE]
    /\ sink = <<>>
    /\ pc = "idle"
    /\ i = 0
    /\ end = 0
    /\ pending = <<>>
    /\ abort = 0
    /\ after = "none"
    /\ ret = 0
    /\ calls = 0
    /\ lineNo = 0
    /\ getCalls = 0
    /\ putCalls = 0
    /\ sinkFailed = FALSE
    /\ srcErrSeen = FALSE
    /\ overflowed = FALSE
    /\ num = NoCall(U64(0), 16)

NextPair == Next \/ Switch

SpecPair == InitPair /\ [][NextPair]_vars

\* ------------------------------------------------------------------------
\* The helper functions called on their own, as hexy_unit_tests() calls the
\* character functions: every byte value and a sample of larger values, in
\* every base up to MaxBase
\* ------------------------------------------------------------------------
NumBases == 0..MaxBase

\* values around the powers of the bases, the 16-bit limit and the 64-bit
\* limit
WideValues ==
    {U64(n) : n \in {256, 1295, 1296, 4095, 4096, 9999, 10000, 32767, 32768,
                     46655, 46656, 65534, 65535, 65536, 1048576, 1679616}}
    \cup {<<0, 0, 1, 0>>, <<65535, 65535, 65535, 32767>>, <<0, 0, 0, 32768>>,
          U64Below(U64Max, 1), U64Max}

NumValues == {U64(n) : n \in 0..ByteMax} \cup WideValues

\* a structure for hexy_print_address: only the address base, the case and
\* the address switch matter to it
NumHexy(base, upper, off) ==
    [MkHexy(Config(Geom(16, base, 16, 1, TRUE),
                   Flags(FALSE, off, FALSE, upper, FALSE), DefaultSeps, U64(0)))
     EXCEPT !.abase = base]

InitNum ==
    /\ num \in {NoCall(v, b) : v \in NumValues, b \in NumBases}
    /\ h = NumHexy(16, FALSE, FALSE)
    /\ src = [b |-> <<>>, used |-> 0, err |-> FALSE]
    /\ sink = <<>>
    /\ pc = "idle"
    /\ i = 0
    /\ end = 0
    /\ pending = <<>>
    /\ abort = 0
    /\ after = "none"
    /\ ret = 0
    /\ calls = 0
    /\ lineNo = 0
    /\ getCalls = 0
    /\ putCalls = 0
    /\ sinkFailed = FALSE
    /\ srcErrSeen = FALSE
    /\ overflowed = FALSE
    /\ entry = [h |-> h, sinkLen |-> 0, gets |-> 0, puts |-> 0, first |-> h]
    /\ peer = NoPeer

DumpVars ==
    <<h, src, sink, pc, i, end, pending, abort, after, ret, calls, lineNo,
      getCalls, putCalls, sinkFailed, srcErrSeen, overflowed, entry>>

\* hexy_unum_to_string(buf, v, base, upper)
NumToString ==
    /\ num.op = "none"
    /\ \E upper \in BOOLEAN :
         LET r == hexy_unum_to_string(num.v, num.base, upper)
         IN num' = [num EXCEPT !.op = "string", !.upper = upper,
                               !.rc = r.rc, !.dig = r.s]
    /\ UNCHANGED <<DumpVars, peer>>

\* hexy_unsigned_integer_logarithm(v, base); a base of 1 never leaves the
\* loop and a base of 0 divides by zero
NumLogarithm ==
    /\ num.op = "none"
    /\ num.base >= 2
    /\ num' = [num EXCEPT !.op = "log",
                          !.w = hexy_unsigned_integer_logarithm(num.v, num.base)]
    /\ UNCHANGED <<DumpVars, peer>>

\* the byte v written as the column loop of hexy() writes it
NumByte ==
    /\ num.op = "none"
    /\ num.base >= 2
    /\ U64Leq(num.v, U64(ByteMax))
    /\ \E upper \in BOOLEAN :
         LET hh == [NumHexy(16, upper, FALSE) EXCEPT !.base = num.base]
             r  == hexy_aligned_print_number(num.v, hh.base, U64(ByteMax),
                                             ByteAlign(hh), 48, hh.uppercase_on)
         IN num' = [num EXCEPT !.op = "byte", !.upper = upper,
                               !.rc = r.rc, !.pad = r.pad, !.dig = r.dig]
    /\ UNCHANGED <<DumpVars, peer>>

\* hexy_print_address(h, v) with h->abase = base
NumAddress ==
    /\ num.op = "none"
    /\ num.base >= 2
    /\ \E upper \in BOOLEAN, off \in BOOLEAN :
         LET r == hexy_print_address(NumHexy(num.base, upper, off), num.v)
         IN num' = [num EXCEPT !.op = "address", !.upper = upper, !.off = off,
                               !.rc = r.rc,
                               !.pad = CharsOf(r.out, "apad"),
                               !.dig = CharsOf(r.out, "adig"),
                               !.sep = CharsOf(r.out, "sadr")]
    /\ UNCHANGED <<DumpVars, peer>>

\* hexy_print_byte(h, v) for a byte v
NumPrintByte ==
    /\ num.op = "none"
    /\ U64Leq(num.v, U64(ByteMax))
    /\ num' = [num EXCEPT !.op = "char",
                          !.dig = CharsOf(hexy_print_byte(num.v[1]), "chr")]
    /\ UNCHANGED <<DumpVars, peer>>

\* the hexy_io_t a direct call of hexy_get or hexy_put is made on: the
\* counters as earlier calls left them, the error flag clear or set
NumIos == {[read |-> r, wrote |-> r + 1, error |-> e] : r \in {0, 3}, e \in {0, -1}}

\* hexy_get(io) on a source that holds the byte v or is at its end
NumGet ==
    /\ num.op = "none"
    /\ U64Leq(num.v, U64(ByteMax))
    /\ \E io0 \in NumIos, more \in BOOLEAN :
         LET s == [b |-> IF more THEN <<num.v[1]>> ELSE <<>>, used |-> 0, err |-> FALSE]
             g == hexy_get(io0, s)
         IN num' = [num EXCEPT !.op = "get", !.io0 = io0, !.io = g.io, !.rc = g.r,
                               !.called = g.called, !.ok = more]
    /\ UNCHANGED <<DumpVars, peer>>

\* hexy_put(io, v) on a sink that accepts the character or fails
NumPut ==
    /\ num.op = "none"
    /\ U64Leq(num.v, U64(ByteMax))
    /\ \E io0 \in NumIos, ok \in BOOLEAN :
         LET p == hexy_put(io0, num.v[1], ok)
         IN num' = [num EXCEPT !.op = "put", !.io0 = io0, !.io = p.io, !.rc = p.r,
                               !.called = p.called, !.ok = ok]
    /\ UNCHANGED <<DumpVars, peer>>

\* hexy_tolower(v) and hexy_toupper(v), as the loop of hexy_unit_tests()
\* calls them for every code below 256
NumCase ==
    /\ num.op = "none"
    /\ U64Leq(num.v, U64(ByteMax))
    /\ num' = [num EXCEPT !.op = "case",
                          !.pad = <<hexy_tolower(num.v[1])>>,
                          !.dig = <<hexy_toupper(num.v[1])>>,
                          !.rc = IF hexy_isupper(hexy_tolower(num.v[1])) THEN -1
                                 ELSE IF hexy_islower(hexy_toupper(num.v[1])) THEN -1
                                 ELSE 0]
    /\ UNCHANGED <<DumpVars, peer>>

NextNum ==
    \/ NumToString \/ NumLogarithm \/ NumByte \/ NumAddress \/ NumPrintByte
    \/ NumGet \/ NumPut \/ NumCase

SpecNum == InitNum /\ [][NextNum]_vars

\* ------------------------------------------------------------------------
\* Vocabulary of the properties
\* ------------------------------------------------------------------------
\* the characters the sink holds
Out == [k \in 1..Len(sink) |-> sink[k].ch]

IsLinePart(e, k) == e.line = k /\ e.tag # "eol2"

\* the characters of formatted line k, the end-of-line after the loop apart
LineChars(k) ==
    LET sel == SelectSeq(sink, LAMBDA e : IsLinePart(e, k))
    IN [n \in 1..Len(sel) |-> sel[n].ch]

\* how many characters of line k come from the places ts of the formatter
CountTags(k, ts) == Len(SelectSeq(sink, LAMBDA e : e.line = k /\ e.tag \in ts))

\* the first hexy() call on the structure has returned
FirstReturned == pc = "idle" /\ calls = 1

\* the bytes the call pulled
PulledNow == h.io.read - entry.h.io.read

\* base 16, 16 columns, group size 1, every view on, default separators
IsDefaultConfig(hh) ==
    /\ hh.base = 16 /\ hh.abase = 16 /\ hh.ncols = 16 /\ hh.group = 1
    /\ ~hh.chars_off /\ ~hh.addresses_off /\ ~hh.newlines_off
    /\ ~hh.uppercase_on /\ ~hh.rev_grp_on
    /\ hh.sep_adr = HEXY_SEP_ADR /\ hh.sep_eol = HEXY_SEP_EOL
    /\ hh.sep_byt = HEXY_SEP_BYT /\ hh.sep_ch1 = HEXY_SEP_CH1
    /\ hh.sep_ch2 = HEXY_SEP_CH2

\* the default configuration with address, character view and end-of-line
\* suppressed
IsRawConfig(hh) ==
    /\ hh.base = 16 /\ hh.ncols = 16 /\ hh.group = 1
    /\ hh.chars_off /\ hh.addresses_off /\ hh.newlines_off
    /\ ~hh.uppercase_on /\ ~hh.rev_grp_on
    /\ hh.sep_byt = HEXY_SEP_BYT

\* the call dumped exactly the bytes AB\n and every push succeeded
DumpedABNewline ==
    /\ FirstReturned /\ ret = 0
    /\ src.b = <<65, 66, 10>> /\ src.used = 3
    /\ entry.h.address = U64(0)

\* ------------------------------------------------------------------------
\* C1 - a dump whose very first pull reports end-of-input returns success
\* and pushes nothing to the sink: no address, no separator, no end-of-line
\* ------------------------------------------------------------------------
EmptyDump ==
    /\ pc = "idle" /\ calls >= 1
    /\ ~src.err
    /\ getCalls = entry.gets + 1
    /\ PulledNow = 0

C1_EmptyInputNoOutput ==
    EmptyDump => ret = 0 /\ Len(sink) = entry.sinkLen /\ putCalls = entry.puts

\* an empty dump under a configuration that prints addresses and characters
C1_Witness ==
    /\ EmptyDump /\ calls = 1 /\ src.b = <<>>
    /\ ~h.addresses_off /\ ~h.chars_off /\ ~h.newlines_off
    /\ ret = 0

\* ------------------------------------------------------------------------
\* C2 - default configuration, address 0, input 41 42 0a: one line.  As
\* claimed the line is the address field "0000", the after-address
\* separator, "41 42 0a ", the separators and the padding of the 13 empty
\* columns, "  |AB." and 13 spaces, "|", end-of-line.  As the code has it the
\* address field is "   0": the digit 0 after three pad spaces
\* ------------------------------------------------------------------------
C2_LineAfterAddress ==
    <<58, 9>>
    \o <<52, 49, 32, 52, 50, 32, 48, 97, 32>>
    \o Repeat(32, 13) \o Repeat(32, 26)
    \o <<32, 32, 124, 65, 66, 46>> \o Repeat(32, 13) \o <<124, 10>>

C2_Original ==
    (DumpedABNewline /\ IsDefaultConfig(h))
        => (lineNo = 1 /\ LineChars(1) = <<48, 48, 48, 48>> \o C2_LineAfterAddress)

C2_DefaultDumpLine ==
    (DumpedABNewline /\ IsDefaultConfig(h))
        => (lineNo = 1 /\ LineChars(1) = <<32, 32, 32, 48>> \o C2_LineAfterAddress)

C2_Witness ==
    /\ DumpedABNewline /\ IsDefaultConfig(h)
    /\ Len(LineChars(1)) = 75

\* ------------------------------------------------------------------------
\* C3 - raw mode, 16 columns, input 41 42 0a.  As claimed: the sink holds
\* exactly the 9 characters "41 42 0a ".  As the code has it: the sink
\* holds 22 characters, "41 42 0a " and the separators of the 13 empty
\* columns, and nothing else
\* ------------------------------------------------------------------------
C3_Original ==
    (DumpedABNewline /\ IsRawConfig(h))
        => Out = <<52, 49, 32, 52, 50, 32, 48, 97, 32>>

C3_RawDump ==
    (DumpedABNewline /\ IsRawConfig(h))
        => Out = <<52, 49, 32, 52, 50, 32, 48, 97, 32>> \o Repeat(32, 13)

C3_Witness ==
    /\ DumpedABNewline /\ IsRawConfig(h)
    /\ Len(Out) = 22

\* ------------------------------------------------------------------------
\* C4 - n >= 1 bytes make ceil(n/L) lines, L = columns x groupSize; every
\* line but the last carries L bytes and no padding; a last line of m < L
\* bytes gets (L - m) x digitWidth(255, base) padding spaces, all of them
\* right before the before-character-view separator
\* ------------------------------------------------------------------------
\* the least k >= 1 with base^k > v
DigitWidth(v, base) == CHOOSE k \in 1..64 : base^k > v /\ (k = 1 \/ base^(k - 1) <= v)

LineTags(k) ==
    LET sel == SelectSeq(sink, LAMBDA e : IsLinePart(e, k))
    IN [n \in 1..Len(sel) |-> sel[n].tag]

\* the bytes line k has to carry when n bytes are dumped in lines of L
BytesOfLine(k, n, L) == IF k * L <= n THEN L ELSE n - (k - 1) * L

PaddingBeforePanel(k) ==
    \A n \in 1..Len(LineTags(k)) :
        LineTags(k)[n] = "pad"
            => (n < Len(LineTags(k)) /\ LineTags(k)[n + 1] \in {"pad", "sch1"})

C4_LinesAndPadding ==
    (FirstReturned /\ ret = 0 /\ PulledNow >= 1) =>
        LET n == PulledNow
            L == h.ncols * h.group
            w == DigitWidth(255, h.base)
        IN /\ lineNo = (n + L - 1) \div L
           /\ \A k \in 1..lineNo :
                LET m == BytesOfLine(k, n, L)
                IN /\ CountTags(k, {"bzero", "bdig"}) = m * w
                   /\ ~h.chars_off =>
                        /\ CountTags(k, {"chr"}) = m
                        /\ CountTags(k, {"pad"}) = (L - m) * w
                        /\ PaddingBeforePanel(k)

\* L + 1 bytes in lines of L = 4 binary bytes: the second line has one byte
\* and 3 x 8 padding spaces
C4_Witness ==
    /\ FirstReturned /\ ret = 0
    /\ h.ncols = 2 /\ h.group = 2 /\ h.base = 2 /\ ~h.chars_off
    /\ PulledNow = 5 /\ lineNo = 2
    /\ CountTags(1, {"pad"}) = 0
    /\ CountTags(2, {"chr"}) = 1
    /\ CountTags(2, {"pad"}) = 24

\* ------------------------------------------------------------------------
\* C5 - with reversal on and group size G the digits of every complete
\* group of a line show its bytes in reversed order and an incomplete last
\* group shows them in input order; with G = 1 nothing changes
\* ------------------------------------------------------------------------
DigitValue(c) ==
    IF c >= 48 /\ c <= 57 THEN c - 48
    ELSE IF c >= 97 /\ c <= 122 THEN c - 87
    ELSE c - 55

RECURSIVE ParseNumber(_, _)
ParseNumber(ds, base) ==
    IF ds = <<>> THEN 0
    ELSE ParseNumber(SubSeq(ds, 1, Len(ds) - 1), base) * base + DigitValue(ds[Len(ds)])

\* the byte digits of line k
LineDigits(k) ==
    LET sel == SelectSeq(sink, LAMBDA e : e.line = k /\ e.tag \in {"bzero", "bdig"})
    IN [n \in 1..Len(sel) |-> sel[n].ch]

\* the value shown at byte position p (from 0) of line k
ShownByte(k, p, w, base) == ParseNumber(SubSeq(LineDigits(k), p * w + 1, p * w + w), base)

\* the input position (from 0, within the line) whose byte belongs at
\* position p of a line of m bytes
ReversedFrom(p, m, G) ==
    LET g == p \div G
    IN IF (g + 1) * G <= m THEN g * G + (G - 1 - (p % G)) ELSE p

C5_GroupReversal ==
    (FirstReturned /\ ret = 0 /\ h.rev_grp_on /\ PulledNow >= 1) =>
        LET n == PulledNow
            L == h.ncols * h.group
            w == DigitWidth(255, h.base)
        IN \A k \in 1..lineNo :
             LET m == BytesOfLine(k, n, L)
             IN /\ Len(LineDigits(k)) = m * w
                /\ \A p \in 0..(m - 1) :
                     ShownByte(k, p, w, h.base)
                        = src.b[(k - 1) * L + ReversedFrom(p, m, h.group) + 1]

\* G = 2, input 01 02 03: "0201" on the first line, "03" on the second
C5_Witness ==
    /\ FirstReturned /\ ret = 0 /\ h.rev_grp_on
    /\ h.group = 2 /\ h.ncols = 1 /\ h.base = 16
    /\ src.b = <<1, 2, 3>> /\ PulledNow = 3
    /\ LineDigits(1) = <<48, 50, 48, 49>>
    /\ LineDigits(2) = <<48, 51>>

\* ------------------------------------------------------------------------
\* C6 - when address + bytes of the line passes 2^64 - 1, hexy() fails
\* once the line is out: the address keeps its value, the stream is marked
\* errored, and no callback is invoked from then on
\* ------------------------------------------------------------------------
\* address + used >= 2^64, for used below 2^16
WrapsAround(address, used) ==
    /\ address[4] = 65535 /\ address[3] = 65535 /\ address[2] = 65535
    /\ address[1] + used >= 65536

C6_AddressOverflow ==
    [][/\ (pc = "adv" /\ WrapsAround(h.address, h.buf_used)) =>
            /\ CountTags(lineNo, {"bzero", "bdig"}) > 0
            /\ pc' = "idle" /\ ret' < 0
            /\ h'.address = h.address
            /\ h'.io.error # 0
            /\ overflowed'
       /\ overflowed =>
            /\ h'.io.error # 0
            /\ h'.address = h.address
            /\ getCalls' = getCalls /\ putCalls' = putCalls /\ sink' = sink
            /\ pc' = "idle" /\ ret' < 0]_vars

\* a counter seeded at its maximum, a non-empty input, and a later call
C6_Witness ==
    /\ overflowed /\ pc = "idle" /\ calls = 2
    /\ entry.h.address = U64Max /\ h.address = U64Max
    /\ Len(src.b) > src.used /\ src.used >= 1
    /\ Len(sink) > 0

\* ------------------------------------------------------------------------
\* C7 - as claimed: a call on a structure built with base = 37, or built
\* with columns = 0, fails validation before any byte is pulled.  As the
\* code has it: columns = 0 fails validation only on a structure whose init
\* flag is already set; on a fresh structure 0 selects the default of 16
\* columns and, the other fields being in range, the call passes validation
\* ------------------------------------------------------------------------
\* the call in progress or just returned failed validation and invoked no
\* callback
RejectedAtEntry ==
    /\ pc = "idle" /\ ret = -608
    /\ getCalls = entry.gets /\ putCalls = entry.puts
    /\ h.io.read = entry.h.io.read /\ Len(sink) = entry.sinkLen

C7_Original ==
    (calls >= 1 /\ (entry.h.base = 37 \/ entry.h.ncols = 0)) => RejectedAtEntry

\* the fields other than columns are unset or in range
OthersInRange(hh) ==
    /\ hh.io.error = 0
    /\ hh.base = 0 \/ hexy_is_valid_base(hh.base)
    /\ hh.group >= 0 /\ hh.group <= HEXY_MAX_GROUP
    /\ hh.buf_used <= BufSize

C7_ValidationRejects ==
    /\ (calls >= 1 /\ (entry.h.base = 37 \/ (entry.h.ncols = 0 /\ entry.h.init)))
            => RejectedAtEntry
    /\ (calls >= 1 /\ entry.h.ncols = 0 /\ ~entry.h.init /\ OthersInRange(entry.h))
            => (h.ncols = 16 /\ h.init /\ ~RejectedAtEntry)

\* an initialized structure with columns = 0 rejected twice, bytes waiting
\* in the source
C7_Witness ==
    /\ RejectedAtEntry /\ calls = 2 /\ Len(src.b) > 0
    /\ entry.h.ncols = 0 /\ entry.h.init /\ entry.h.base = 16

C9_StickyPutFailure ==
    [][/\ (~sinkFailed /\ sinkFailed') =>
            /\ h'.io.error # 0
            /\ pc' = "idle" /\ ret' < 0
            /\ sink' = sink /\ h'.io.wrote = h.io.wrote
       /\ sinkFailed =>
            /\ h.io.error # 0 /\ h'.io.error # 0
            /\ getCalls' = getCalls /\ putCalls' = putCalls
            /\ sink' = sink
            /\ pc' = "idle" /\ ret' < 0]_vars

\* the sink failed after accepting characters, bytes were left in the
\* source, and a second call has been made
C9_Witness ==
    /\ sinkFailed /\ calls = 2 /\ pc = "idle"
    /\ Len(sink) > 0 /\ Len(src.b) > src.used
    /\ getCalls = entry.gets /\ putCalls = entry.puts

\* ------------------------------------------------------------------------
\* C10 - as claimed: once hexy_get has seen an error of the source, no
\* later pull or push invokes a callback.  As the code has it: a pull or a
\* push that finds the error flag set invokes no callback, but an error of
\* the source does not set the flag: hexy() takes it for end-of-input
\* ------------------------------------------------------------------------
C10_Original ==
    [][srcErrSeen => (getCalls' = getCalls /\ putCalls' = putCalls)]_vars

C10_StickyFlagOnly ==
    [][/\ h.io.error # 0 => (getCalls' = getCalls /\ putCalls' = putCalls)
       /\ (~srcErrSeen /\ srcErrSeen') =>
            /\ h'.io.error = h.io.error
            /\ h'.io.read = h.io.read
            /\ IF i = 0 THEN pc' = "idle" /\ ret' = 0 ELSE pc' = "addr"]_vars

\* a source error in the middle of a line, and the line pushed afterwards
C10_Witness ==
    /\ srcErrSeen /\ h.io.error = 0
    /\ src.b = <<65>> /\ h.ncols = 2 /\ lineNo = 1
    /\ putCalls > 0 /\ Len(sink) > 0

AddressPrintable(hh) == hh.addresses_off \/ hexy_is_valid_base(hh.abase)

BodyTags == {"bzero", "bdig", "sbyt", "pad"}

PanelTags == {"chr", "cpad"}

\* line k of the first call has been formatted and pushed to its end
LineComplete(k) ==
    /\ calls = 1
    /\ k \in 1..lineNo
    /\ \/ k < lineNo
       \/ pc \in {"adv", "read", "tail"}
       \/ pc = "idle" /\ ret \in {0, Eline("eol2"), -692}

\* in line k the address field, the byte field, the panel and their
\* separators follow one another in this order
FieldOrder(k) ==
    LET ts == LineTags(k)
        rank(t) == CASE t \in {"apad", "adig", "sadr"} -> 1
                     [] t \in BodyTags -> 2
                     [] t = "sch1" -> 3
                     [] t = "chr" -> 4
                     [] t = "cpad" -> 5
                     [] t = "sch2" -> 6
                     [] OTHER -> 7
    IN \A m, n \in 1..Len(ts) : m < n => rank(ts[m]) <= rank(ts[n])

C17_AlignedPanel ==
    \A k \in 1..lineNo :
        (LineComplete(k) /\ ~h.chars_off) =>
            LET L == h.ncols * h.group
                w == DigitWidth(255, h.base)
            IN /\ CountTags(k, BodyTags) = L * w + h.ncols * Len(h.sep_byt)
               /\ CountTags(k, PanelTags) = L
               /\ CountTags(k, {"chr"}) = BytesOfLine(k, PulledNow, L)
               /\ CountTags(k, {"cpad"}) = L - BytesOfLine(k, PulledNow, L)
               /\ CountTags(k, {"sch1"}) = Len(h.sep_ch1)
               /\ CountTags(k, {"sch2"}) = Len(h.sep_ch2)
               /\ FieldOrder(k)

\* a short line of 3 bytes in 2 columns of groups of 2, base 2, with the
\* panel: 4 * 8 digits and padding, no separator characters, a panel of 4
C17_Witness ==
    /\ LineComplete(1) /\ ~h.chars_off /\ pc = "idle" /\ ret = 0
    /\ h.base = 2 /\ h.ncols = 2 /\ h.group = 2
    /\ PulledNow = 3
    /\ CountTags(1, {"pad"}) = 8
    /\ CountTags(1, BodyTags) = 32 + 2 * Len(h.sep_byt)
    /\ CountTags(1, {"chr"}) = 3
    /\ CountTags(1, {"cpad"}) = 1

\* ------------------------------------------------------------------------
\* C18 - the end-of-line separator follows a formatted line if and only if
\* one of the character view, the address and the end-of-line is enabled;
\* with all three suppressed the output of a dump is made of byte digits
\* and between-bytes separators only
\* ------------------------------------------------------------------------
AnyViewEnabled(hh) == ~hh.chars_off \/ ~hh.addresses_off \/ ~hh.newlines_off

\* line k ends with the characters of sep_eol, pushed by line 679
EndsWithEol(k) ==
    LET ts == LineTags(k)
        cs == LineChars(k)
        n  == Len(h.sep_eol)
    IN /\ Len(cs) >= n
       /\ SubSeq(cs, Len(cs) - n + 1, Len(cs)) = h.sep_eol
       /\ \A m \in 1..Len(ts) : ts[m] = "eol" <=> m > Len(ts) - n

C18_EolIffEnabled ==
    /\ \A k \in 1..lineNo :
         LineComplete(k) =>
            IF AnyViewEnabled(h)
            THEN EndsWithEol(k)
            ELSE CountTags(k, {"eol"}) = 0
    /\ ~AnyViewEnabled(h) =>
         \A n \in 1..Len(sink) : sink[n].tag \in {"bzero", "bdig", "sbyt"}

\* a line with the panel as the only view enabled has its end-of-line
C18_Witness ==
    /\ LineComplete(1) /\ pc = "idle" /\ ret = 0
    /\ ~h.chars_off /\ h.addresses_off /\ h.newlines_off
    /\ CountTags(1, {"eol"}) = Len(h.sep_eol)
    /\ Len(h.sep_eol) > 0

\* two lines dumped with everything suppressed: digits and separators only
C18_WitnessRaw ==
    /\ LineComplete(2) /\ pc = "idle" /\ ret = 0
    /\ ~AnyViewEnabled(h)
    /\ Len(sink) > 0
    /\ \A n \in 1..Len(sink) : sink[n].tag \in {"bzero", "bdig", "sbyt"}

\* ------------------------------------------------------------------------
\* C20 - defaulting happens once and touches unset fields only: a call on a
\* structure with init false gives base, columns, group, address base and
\* the five separators their defaults where they are 0 or NULL and leaves
\* the others, an empty separator included, as given, and sets init when
\* the validation passes; a call on a structure with init true changes no
\* configuration field, not even one that is 0 or NULL; no other step of
\* hexy() changes the configuration
\* ------------------------------------------------------------------------
ConfigOf(hh) ==
    [base |-> hh.base, ncols |-> hh.ncols, group |-> hh.group, abase |-> hh.abase,
     sep_adr |-> hh.sep_adr, sep_eol |-> hh.sep_eol, sep_byt |-> hh.sep_byt,
     sep_ch1 |-> hh.sep_ch1, sep_ch2 |-> hh.sep_ch2, init |-> hh.init,
     chars_off |-> hh.chars_off, addresses_off |-> hh.addresses_off,
     newlines_off |-> hh.newlines_off, uppercase_on |-> hh.uppercase_on,
     rev_grp_on |-> hh.rev_grp_on]

OrElse(given, sentinel, default) == IF given = sentinel THEN default ELSE given

\* the configuration the claim expects after a call on hh with init false
DefaultedConfig(hh) ==
    LET b == OrElse(hh.base, 0, 16)
        n == OrElse(hh.ncols, 0, 16)
        g == OrElse(hh.group, 0, 1)
        passes == /\ hh.io.error = 0
                  /\ b \in 2..36 /\ n \in 1..32 /\ g \in 1..8
    IN [ConfigOf(hh) EXCEPT
          !.base = b, !.ncols = n, !.group = g,
          !.abase = OrElse(hh.abase, 0, b),
          !.sep_adr = OrElse(hh.sep_adr, NULL, <<58, 9>>),
          !.sep_eol = OrElse(hh.sep_eol, NULL, <<10>>),
          !.sep_byt = OrElse(hh.sep_byt, NULL, <<32>>),
          !.sep_ch1 = OrElse(hh.sep_ch1, NULL, <<32, 32, 124>>),
          !.sep_ch2 = OrElse(hh.sep_ch2, NULL, <<124>>),
          !.init = passes]

C20_DefaultingOnce ==
    [][IF calls' = calls + 1
       THEN ConfigOf(h') = (IF h.init THEN ConfigOf(h) ELSE DefaultedConfig(h))
       ELSE ConfigOf(h') = ConfigOf(h)]_vars

\* the first call has defaulted the unset fields of a structure built with
\* an empty between-bytes separator and no separator after the panel: the
\* first is kept, the second defaulted
C20_Witness ==
    /\ calls = 1 /\ ~entry.h.init /\ h.init
    /\ entry.h.base = 0 /\ h.base = 16 /\ h.abase = 16
    /\ entry.h.sep_byt = <<>> /\ h.sep_byt = <<>>
    /\ entry.h.sep_ch2 = NULL /\ h.sep_ch2 = <<124>>
    /\ ConfigOf(h) = DefaultedConfig(entry.h)
    /\ ConfigOf(h) # ConfigOf(entry.h)

\* a call on an initialized structure whose columns are 0 has left them 0
C20_WitnessLater ==
    /\ calls >= 1 /\ pc = "idle" /\ entry.h.init
    /\ entry.h.ncols = 0 /\ h.ncols = 0
    /\ ConfigOf(h) = ConfigOf(entry.h)

\* ------------------------------------------------------------------------
\* C12 - for every base in 2..36, every value and both cases, the digits of
\* hexy_unum_to_string read back most significant digit first in that base
\* give the value; they are taken from 0-9a-z (0-9A-Z when upper is set);
\* the value 0 gives the single digit "0"; a base outside 2..36 gives an
\* error and no digits
\* ------------------------------------------------------------------------
\* c is a digit of the base, in the case asked for
IsDigitOf(c, base, upper) ==
    /\ \/ c \in 48..57
       \/ ~upper /\ c \in 97..122
       \/ upper /\ c \in 65..90
    /\ DigitValue(c) < base

\* a * m + c modulo 2^64, on limbs
U64MulAdd(a, m, c) ==
    LET s1 == a[1] * m + c
        s2 == a[2] * m + (s1 \div LimbBase)
        s3 == a[3] * m + (s2 \div LimbBase)
        s4 == a[4] * m + (s3 \div LimbBase)
    IN <<s1 % LimbBase, s2 % LimbBase, s3 % LimbBase, s4 % LimbBase>>

\* the digits of ds from position k on read after the value acc; each
\* partial value is computed before the next digit is read
RECURSIVE ParseFrom(_, _, _, _)
ParseFrom(ds, k, acc, base) ==
    IF k > Len(ds) THEN acc
    ELSE LET nxt == U64MulAdd(acc, base, DigitValue(ds[k]))
         IN IF nxt \in Seq(Nat) THEN ParseFrom(ds, k + 1, nxt, base) ELSE U64Zero

\* the digits ds read most significant first
ParseU64(ds, base) == ParseFrom(ds, 1, U64Zero, base)

C12_RoundTrip ==
    num.op = "string" =>
        IF num.base \in 2..36
        THEN /\ num.rc = 0
             /\ Len(num.dig) >= 1
             /\ \A k \in 1..Len(num.dig) : IsDigitOf(num.dig[k], num.base, num.upper)
             /\ ParseU64(num.dig, num.base) = num.v
             /\ U64Leq(num.v, U64(ByteMax)) => ParseNumber(num.dig, num.base) = num.v[1]
             /\ num.v = U64Zero => num.dig = <<48>>
        ELSE /\ num.rc < 0
             /\ num.dig = <<>>

\* 251 in base 36 with upper set is "6Z"
C12_Witness ==
    /\ num.op = "string" /\ num.v = U64(251) /\ num.base = 36 /\ num.upper
    /\ num.rc = 0 /\ num.dig = <<54, 90>>

\* base 37 is refused
C12_WitnessBadBase ==
    /\ num.op = "string" /\ num.base = 37 /\ num.rc < 0 /\ num.dig = <<>>

\* ------------------------------------------------------------------------
\* C13 - for every base in 2..36 and every value v,
\* hexy_unsigned_integer_logarithm(v, base) is the number of digits
\* hexy_unum_to_string gives v in that base, the least k >= 1 with
\* base^k > v; it is 1 for v = 0, 2 for 255 in base 16, 8 for 255 in base 2
\* ------------------------------------------------------------------------
\* v as an integer, for a v below 2^31
SmallValue(v) == v[1] + v[2] * LimbBase

IsSmall(v) == v[3] = 0 /\ v[4] = 0 /\ v[2] < 32768

\* k digits form the numeral of v without a leading zero exactly when k is
\* the least k >= 1 with base^k > v
NumeralOf(ds, v, base) ==
    /\ Len(ds) >= 1
    /\ \A k \in 1..Len(ds) : DigitValue(ds[k]) \in 0..(base - 1)
    /\ Len(ds) > 1 => DigitValue(ds[1]) # 0
    /\ ParseU64(ds, base) = v

C13_LogarithmIsDigitCount ==
    (num.op = "log" /\ num.base \in 2..36) =>
        LET str == hexy_unum_to_string(num.v, num.base, FALSE)
        IN /\ str.rc = 0
           /\ num.w = Len(str.s)
           /\ NumeralOf(str.s, num.v, num.base)
           /\ IsSmall(num.v) => num.w = DigitWidth(SmallValue(num.v), num.base)
           /\ num.v = U64Zero => num.w = 1
           /\ (num.v = U64(255) /\ num.base = 16) => num.w = 2
           /\ (num.v = U64(255) /\ num.base = 2) => num.w = 8

\* 255 in base 2 has 8 digits
C13_Witness ==
    /\ num.op = "log" /\ num.v = U64(255) /\ num.base = 2 /\ num.w = 8

\* the largest 64-bit value has 64 digits in base 2 and 13 in base 36
C13_WitnessWide ==
    /\ num.op = "log" /\ num.v = U64Max /\ num.base = 36 /\ num.w = 13

\* ------------------------------------------------------------------------
\* C14 - for every base in 2..36 and every byte value 0..255, the byte is
\* written as exactly digitWidth(255, base) characters: '0' characters,
\* then the digits of the byte in that base
\* ------------------------------------------------------------------------
C14_ByteWidth ==
    (num.op = "byte" /\ num.base \in 2..36) =>
        /\ num.rc = 0
        /\ Len(num.pad) + Len(num.dig) = DigitWidth(ByteMax, num.base)
        /\ \A k \in 1..Len(num.pad) : num.pad[k] = 48
        /\ NumeralOf(num.dig, num.v, num.base)
        /\ \A k \in 1..Len(num.dig) : IsDigitOf(num.dig[k], num.base, num.upper)
        /\ ParseNumber(num.pad \o num.dig, num.base) = num.v[1]

\* 5 in base 2 is 00000101
C14_Witness ==
    /\ num.op = "byte" /\ num.v = U64(5) /\ num.base = 2
    /\ num.pad = <<48, 48, 48, 48, 48>> /\ num.dig = <<49, 48, 49>>

\* ------------------------------------------------------------------------
\* C15 - for every address a and address base b in 2..36 the address field
\* is p spaces, p = max(0, min(4, digitWidth(65535, b) - digitWidth(a, b))),
\* then the complete digits of a in base b, then the after-address
\* separator; nothing at all is written when addresses are suppressed
\* ------------------------------------------------------------------------
AddressPad(digits, base) ==
    HEXY_MAX(0, HEXY_MIN(4, DigitWidth(65535, base) - digits))

C15_AddressField ==
    (num.op = "address" /\ num.base \in 2..36) =>
        IF num.off
        THEN num.rc = 0 /\ num.pad = <<>> /\ num.dig = <<>> /\ num.sep = <<>>
        ELSE /\ num.rc = 0
             /\ NumeralOf(num.dig, num.v, num.base)
             /\ \A k \in 1..Len(num.dig) : IsDigitOf(num.dig[k], num.base, num.upper)
             /\ num.pad = Repeat(32, AddressPad(Len(num.dig), num.base))
             /\ num.sep = <<58, 9>>

\* 255 in base 10 is "  255"
C15_Witness ==
    /\ num.op = "address" /\ ~num.off /\ num.v = U64(255) /\ num.base = 10
    /\ num.pad = <<32, 32>> /\ num.dig = <<50, 53, 53>> /\ num.sep = <<58, 9>>

\* the largest address in base 16 is not truncated: 16 digits, no padding
C15_WitnessWide ==
    /\ num.op = "address" /\ ~num.off /\ num.v = U64Max /\ num.base = 16
    /\ ~num.upper /\ num.pad = <<>> /\ num.dig = Repeat(102, 16)

\* nothing is written when addresses are suppressed
C15_WitnessOff ==
    /\ num.op = "address" /\ num.off /\ num.v = U64(255) /\ num.base = 10
    /\ num.pad = <<>> /\ num.dig = <<>> /\ num.sep = <<>>

\* ------------------------------------------------------------------------
\* C16 - as claimed: for each address base in 2..36 the address field,
\* padding and digits, has the same number of characters for every address
\* in 0..65535; 65535 is written without padding, so that number is
\* digitWidth(65535, base).  The code pads with at most 4 characters: in
\* the bases 2..9, where 65535 has more than 5 digits, short addresses get
\* a narrower field (address 0 in base 2: 5 characters, 65535: 16)
\* ------------------------------------------------------------------------
C16_ConstantAddressWidth ==
    (/\ num.op = "address" /\ ~num.off /\ num.base \in 2..36
     /\ U64Leq(num.v, U64(65535))) =>
        Len(num.pad) + Len(num.dig) = DigitWidth(65535, num.base)

\* ------------------------------------------------------------------------
\* C19 - the character view shows a byte b as itself when 32 < b < 127 and
\* as '.' otherwise: 0..32, the space included, and 127..255 are replaced
\* ------------------------------------------------------------------------
ViewOf(b) == IF 32 < b /\ b < 127 THEN b ELSE 46

C19_CharView ==
    num.op = "char" =>
        /\ num.dig = <<ViewOf(num.v[1])>>
        /\ num.v[1] \in 0..32 \cup 127..255 => num.dig = <<46>>

\* the space is shown as '.'
C19_Witness ==
    /\ num.op = "char" /\ num.v = U64(32) /\ num.dig = <<46>>

\* '~' is shown as itself
C19_WitnessGraphic ==
    /\ num.op = "char" /\ num.v = U64(126) /\ num.dig = <<126>>

\* the same in a dump, whatever the configuration: the panel of every
\* complete line shows the bytes of the line, in the order the line has
\* them after the reversal of groups
C19_InDump ==
    \A k \in 1..lineNo :
        (LineComplete(k) /\ ~h.chars_off) =>
            LET L  == h.ncols * h.group
                m  == BytesOfLine(k, PulledNow, L)
                cs == CharsOf(SelectSeq(sink, LAMBDA e : e.line = k), "chr")
            IN /\ Len(cs) = m
               /\ \A p \in 0..(m - 1) :
                    cs[p + 1] = ViewOf(src.b[(k - 1) * L
                                   + (IF h.rev_grp_on THEN ReversedFrom(p, m, h.group)
                                      ELSE p) + 1])

\* ------------------------------------------------------------------------
\* C24 - every formatted line has exactly `columns` between-bytes
\* separators, one after each column, the columns without data on a short
\* line included, and none between the bytes of one group
\* ------------------------------------------------------------------------
\* the digits ("d") and separator characters ("s") of the columns from c on
\* of a line of m bytes: w digits a byte, seplen characters a separator
RECURSIVE ColumnShape(_, _, _, _, _, _)
ColumnShape(c, m, ncols, G, w, seplen) ==
    IF c >= ncols THEN <<>>
    ELSE LET held == HEXY_MAX(0, HEXY_MIN(G, m - c * G))
         IN Repeat("d", held * w) \o Repeat("s", seplen)
            \o ColumnShape(c + 1, m, ncols, G, w, seplen)

\* the byte digits and between-bytes separators of line k, in order
ColumnsOfLine(k) ==
    LET sel == SelectSeq(sink, LAMBDA e : e.line = k /\ e.tag \in {"bzero", "bdig", "sbyt"})
    IN [n \in 1..Len(sel) |-> IF sel[n].tag = "sbyt" THEN "s" ELSE "d"]

C24_SeparatorPerColumn ==
    \A k \in 1..lineNo :
        LineComplete(k) =>
            LET L == h.ncols * h.group
                m == BytesOfLine(k, PulledNow, L)
                w == DigitWidth(255, h.base)
            IN /\ CountTags(k, {"sbyt"}) = h.ncols * Len(h.sep_byt)
               /\ ColumnsOfLine(k) = ColumnShape(0, m, h.ncols, h.group, w, Len(h.sep_byt))

\* 1 byte in 2 columns of 1, base 16: 2 digits, the separator of the
\* column, the separator of the empty column
C24_Witness ==
    /\ LineComplete(1) /\ pc = "idle" /\ ret = 0
    /\ h.base = 16 /\ h.ncols = 2 /\ h.group = 1 /\ PulledNow = 1
    /\ Len(h.sep_byt) = 1
    /\ ColumnsOfLine(1) = <<"d", "d", "s", "s">>

\* ------------------------------------------------------------------------
\* C30 - with reversal on and a group size above 1 the character view of a
\* line lists the bytes in the order of the byte digits of that line (each
\* complete group reversed, an incomplete last group as pulled), not in the
\* order they were pulled; the reversal moves a byte within its group only,
\* so a line shows the bytes that were pulled for it
\* ------------------------------------------------------------------------
\* the characters of the panel of line k
PanelOfLine(k) == CharsOf(SelectSeq(sink, LAMBDA e : e.line = k), "chr")

C30_PanelFollowsDigits ==
    \A k \in 1..lineNo :
        (LineComplete(k) /\ h.rev_grp_on /\ h.group > 1 /\ ~h.chars_off) =>
            LET L == h.ncols * h.group
                m == BytesOfLine(k, PulledNow, L)
                w == DigitWidth(255, h.base)
            IN /\ Len(PanelOfLine(k)) = m
               /\ \A p \in 0..(m - 1) :
                    LET q == ReversedFrom(p, m, h.group)
                    IN /\ PanelOfLine(k)[p + 1] = ViewOf(ShownByte(k, p, w, h.base))
                       /\ q \in 0..(m - 1)
                       /\ q \div h.group = p \div h.group
                       /\ ShownByte(k, p, w, h.base) = src.b[(k - 1) * L + q + 1]

\* "AB\n" in groups of 2, one column: "BA" on the first line, "." alone on
\* the second
C30_Witness ==
    /\ LineComplete(2) /\ pc = "idle" /\ ret = 0
    /\ h.rev_grp_on /\ h.group = 2 /\ h.ncols = 1 /\ ~h.chars_off
    /\ src.b = <<65, 66, 10>>
    /\ PanelOfLine(1) = <<66, 65>>
    /\ PanelOfLine(2) = <<46>>

\* ------------------------------------------------------------------------
\* C28 - while hexy() runs on a configuration that passed validation,
\* buf_used <= columns * group <= sizeof(buf), every index into the line
\* buffer is below sizeof(buf), missing = columns * group - buf_used is in
\* 0..1023 and the line length is positive and at least the column count,
\* so no assertion of hexy() fails; buf_used is 0 when the reading of a line
\* starts
\* ------------------------------------------------------------------------
\* hexy() is past hexy_config_default
InsideHexy == pc # "idle"

C28_BufferBounds ==
    InsideHexy =>
        LET L == h.ncols * h.group
            missing == L - h.buf_used
            limit == h.buf_used \div h.group
        IN /\ L > 0 /\ L >= h.ncols
           /\ h.buf_used <= L
           /\ L <= BufSize
           /\ BufSize = 256
           /\ missing \in 0..1023
           /\ pc = "read" => (h.buf_used = i /\ i < L /\ h.buf_used < BufSize)
           /\ (pc = "read" /\ i = 0) => h.buf_used = 0
           /\ \A g \in 0..(limit - 1) : g * h.group + h.group <= BufSize
           /\ Len(h.buf) >= h.buf_used /\ Len(h.buf) <= BufSize

\* a line buffer as large as it can be holding 5 bytes, 251 missing
C28_Witness ==
    /\ pc = "out" /\ h.ncols = 32 /\ h.group = 8
    /\ h.buf_used = 5
    /\ h.ncols * h.group = BufSize

\* ------------------------------------------------------------------------
\* C26 - in a dump that starts at address A0 the address printed on the
\* k-th formatted line (k = 0, 1, ...) is A0 + k * L; the address counter
\* never decreases; when hexy() returns success the counter is A0 plus the
\* number of bytes pulled during the call (the increase of io.read)
\* ------------------------------------------------------------------------
\* the address digits of line k
AddressOfLine(k) == CharsOf(SelectSeq(sink, LAMBDA e : e.line = k), "adig")

\* a is the 64-bit value a0 + n; a0 + n is computed on integers where a0
\* is small enough for that
IsSum(a, a0, n) ==
    IF IsSmall(a0) /\ SmallValue(a0) + n < 2^30
    THEN IsSmall(a) /\ SmallValue(a) = SmallValue(a0) + n
    ELSE a = U64Add(a0, n)

LineAddresses ==
    \A k \in 1..lineNo :
        (LineComplete(k) /\ ~h.addresses_off) =>
            IsSum(ParseU64(AddressOfLine(k), h.abase), entry.h.address,
                  (k - 1) * h.ncols * h.group)

CounterOnSuccess ==
    (pc = "idle" /\ calls >= 1 /\ ret = 0) =>
        IsSum(h.address, entry.h.address, h.io.read - entry.h.io.read)

C26_AddressProgress ==
    /\ [](LineAddresses /\ CounterOnSuccess)
    /\ [][U64Leq(h.address, h'.address)]_vars

\* three lines of 2 bytes from address 65535, base 10: the third line is
\* at 65539 and the counter ends at 65540
C26_Witness ==
    /\ pc = "idle" /\ calls = 1 /\ ret = 0 /\ lineNo = 3
    /\ entry.h.address = U64(65535) /\ h.abase = 10 /\ h.ncols * h.group = 2
    /\ AddressOfLine(2) = <<54, 53, 53, 51, 55>>
    /\ AddressOfLine(3) = <<54, 53, 53, 51, 57>>
    /\ h.address = U64(65540)

\* ------------------------------------------------------------------------
\* C27 - hexy_get adds exactly 1 to io.read when the get callback returns a
\* byte and leaves it alone when the callback returns a negative value or
\* the error flag is set; hexy_put adds exactly 1 to io.wrote when the put
\* callback succeeds and leaves it alone when it fails or the error flag is
\* set; neither counter decreases; io.wrote is the number of characters the
\* sink accepted
\* ------------------------------------------------------------------------
C27_Counters ==
    /\ num.op = "get" =>
         /\ num.io.wrote = num.io0.wrote
         /\ num.io.read = num.io0.read
                + (IF num.io0.error = 0 /\ num.ok THEN 1 ELSE 0)
         /\ num.called <=> num.io0.error = 0
         /\ (num.io0.error = 0 /\ num.ok) => num.rc = num.v[1]
         /\ (num.io0.error # 0 \/ ~num.ok) => num.rc < 0
    /\ num.op = "put" =>
         /\ num.io.read = num.io0.read
         /\ num.io.wrote = num.io0.wrote
                + (IF num.io0.error = 0 /\ num.ok THEN 1 ELSE 0)
         /\ num.called <=> num.io0.error = 0
         /\ (num.io0.error = 0 /\ num.ok) => num.rc = num.v[1]
         /\ (num.io0.error # 0 \/ ~num.ok) => num.rc < 0

\* a put on a sink that would accept the character, made with the error
\* flag set: the callback is not invoked and io.wrote stays
C27_Witness ==
    /\ num.op = "put" /\ num.io0.error # 0 /\ num.ok /\ ~num.called
    /\ num.io0.wrote = 4 /\ num.io.wrote = 4

\* a get that returns the byte 200: io.read goes from 3 to 4
C27_WitnessGet ==
    /\ num.op = "get" /\ num.v = U64(200) /\ num.rc = 200
    /\ num.io0.read = 3 /\ num.io.read = 4

\* the same in a dump: the counters move by at most 1 a step and never
\* back, io.read with the bytes taken from the source, io.wrote with the
\* characters in the sink
C27_InDump ==
    /\ [](h.io.wrote = Len(sink) /\ (calls <= 1 => h.io.read = src.used))
    /\ [][/\ h'.io.read \in {h.io.read, h.io.read + 1}
          /\ h'.io.wrote \in {h.io.wrote, h.io.wrote + 1}
          /\ h'.io.read = h.io.read + 1 <=> (pc = "read" /\ src'.used = src.used + 1)
          /\ h'.io.wrote = h.io.wrote + 1 <=> Len(sink') = Len(sink) + 1]_vars

\* ------------------------------------------------------------------------
\* C25 - with the end-of-line enabled, a dump whose input ends in the
\* middle of a line writes the end-of-line once to end the short line and
\* exactly once more before it returns; a dump of a non-empty input whose
\* length is a multiple of L = columns * group writes exactly one
\* end-of-line after its last line; both return success
\* ------------------------------------------------------------------------
\* the characters written by the hexy_newline after the loop
FinalEols == CharsOf(sink, "eol2")

\* the sink ends with the characters cs
SinkEndsWith(cs) ==
    /\ Len(Out) >= Len(cs)
    /\ SubSeq(Out, Len(Out) - Len(cs) + 1, Len(Out)) = cs

\* the first call has returned and nothing stood in its way: the sink took
\* every character, the address could be printed and did not overflow
UnhinderedReturn ==
    /\ FirstReturned /\ ret # -608
    /\ ~sinkFailed /\ ~overflowed /\ AddressPrintable(h)

C25_FinalEol ==
    (UnhinderedReturn /\ hexy_newlines_enabled(h) /\ PulledNow >= 1) =>
        LET L == h.ncols * h.group
            n == PulledNow
        IN /\ ret = 0
           /\ n = Len(src.b)
           /\ lineNo = (n + L - 1) \div L
           /\ \A k \in 1..lineNo : CountTags(k, {"eol"}) = Len(h.sep_eol)
           /\ IF n % L # 0
              THEN /\ FinalEols = h.sep_eol
                   /\ SinkEndsWith(h.sep_eol \o h.sep_eol)
              ELSE /\ FinalEols = <<>>
                   /\ SinkEndsWith(h.sep_eol)
                   /\ Len(h.sep_eol) > 0 => sink[Len(sink)].tag = "eol"

\* 3 bytes in lines of 2: the short second line ends "\n\n"
C25_Witness ==
    /\ UnhinderedReturn /\ ret = 0 /\ ~h.newlines_off
    /\ h.ncols * h.group = 2 /\ PulledNow = 3 /\ lineNo = 2
    /\ h.sep_eol = <<10>>
    /\ FinalEols = <<10>>
    /\ SinkEndsWith(<<10, 10>>)

\* 4 bytes in lines of 2: one "\n" after the second line and none after it
C25_WitnessFull ==
    /\ UnhinderedReturn /\ ret = 0 /\ ~h.newlines_off
    /\ h.ncols * h.group = 2 /\ PulledNow = 4 /\ lineNo = 2
    /\ h.sep_eol = <<10>>
    /\ FinalEols = <<>>
    /\ CountTags(2, {"eol"}) = 1
    /\ ~SinkEndsWith(<<10, 10>>)

\* ------------------------------------------------------------------------
\* C29 - a second hexy() call on the same hexy_t with a new source resets
\* neither the address counter nor the configuration: the first address
\* the second pass prints is the starting address of the first pass plus
\* the bytes the first pass consumed, and both passes run with the same
\* base, columns, group size, flags and separators
\* ------------------------------------------------------------------------
\* what the running (or last) call has pushed
PassOutput == SubSeq(sink, entry.sinkLen + 1, Len(sink))

\* the address digits of the first line of the running call
PassFirstAddress ==
    CharsOf(SelectSeq(PassOutput, LAMBDA e : e.line = 1), "adig")

\* the address field of the first line of the running call is written
FirstAddressWritten ==
    /\ ~h.addresses_off
    /\ \/ lineNo >= 2
       \/ /\ lineNo = 1
          /\ \/ pc \in {"body", "adv", "read", "tail"}
             \/ pc = "out" /\ after # "body"
             \/ pc = "idle" /\ ret # -628

\* the configuration the first pass ran with: the one it was given, the
\* defaults filled in
FirstPassConfig ==
    IF entry.first.init THEN ConfigOf(entry.first) ELSE DefaultedConfig(entry.first)

C29_SecondPassContinues ==
    calls = 2 =>
        /\ ConfigOf(entry.h) = FirstPassConfig
        /\ InsideHexy => ConfigOf(h) = FirstPassConfig
        /\ FirstAddressWritten =>
             /\ IsSum(entry.h.address, entry.first.address, entry.h.io.read)
             /\ ParseU64(PassFirstAddress, h.abase) = entry.h.address

\* a first pass over "AB\n" from address 0, then a second pass over a new
\* source: its first line is at address 3
C29_Witness ==
    /\ calls = 2 /\ pc = "idle" /\ ret = 0
    /\ entry.first.address = U64(0) /\ entry.h.io.read = 3
    /\ src = [NextFile EXCEPT !.used = 3]
    /\ h.abase = 16 /\ FirstAddressWritten
    /\ PassFirstAddress = <<51>>
    /\ h.address = U64(6)

\* ------------------------------------------------------------------------
\* C23 - for every character code c in 0..255, hexy_tolower(c) is never an
\* upper case letter and hexy_toupper(c) is never a lower case letter, by
\* hexy_isupper and hexy_islower; a code outside A-Z and a-z is returned
\* unchanged by both
\* ------------------------------------------------------------------------
UpperLetters == 65..90

LowerLetters == 97..122

C23_CaseConversion ==
    num.op = "case" =>
        LET c  == num.v[1]
            lo == num.pad[1]
            up == num.dig[1]
        IN /\ lo \notin UpperLetters /\ ~hexy_isupper(lo)
           /\ up \notin LowerLetters /\ ~hexy_islower(up)
           /\ num.rc = 0
           /\ c \notin (UpperLetters \cup LowerLetters) => (lo = c /\ up = c)
           /\ c \in UpperLetters => (lo = c + 32 /\ up = c)
           /\ c \in LowerLetters => (lo = c /\ up = c - 32)

\* 'Z' becomes 'z' and stays 'Z'
C23_Witness ==
    /\ num.op = "case" /\ num.v = U64(90)
    /\ num.pad = <<122>> /\ num.dig = <<90>>

\* '[', the code after 'Z', is left alone
C23_WitnessOther ==
    /\ num.op = "case" /\ num.v = U64(91)
    /\ num.pad = <<91>> /\ num.dig = <<91>>

\* ------------------------------------------------------------------------
\* C21 - as claimed: for every finite source and every configuration, in
\* range or not, a call of hexy() returns in the end, with success or
\* failure.  As the code has it: hexy_validate does not look at the address
\* base (C8), and with an address base of 1 the loop of
\* hexy_unsigned_integer_logarithm never ends (n /= 1 leaves n as it is);
\* with an address base of 0 on an initialized structure it divides by zero
\* ------------------------------------------------------------------------
C21_CallReturns == (pc # "idle") ~> (pc = "idle")

\* a call on a structure whose address can be printed does return
C21_ReturnsWhenAddressPrintable ==
    (pc # "idle" /\ AddressPrintable(h)) ~> (pc = "idle")

\* ------------------------------------------------------------------------
\* C22 - two dump sessions, each with its own hexy_t and its own streams,
\* may be interleaved step by step in any order: the output, the return
\* value, the final address and the counters of each are those of the
\* session run alone, as no state is shared between sessions
\* ------------------------------------------------------------------------
\* the characters of tagged output
Plain(out) == [k \in 1..Len(out) |-> out[k].ch]

\* a dump run alone from line to line on a sink that accepts everything:
\* the structure hh past hexy_config_default, the bytes of the source from
\* position pos on, the output so far
RECURSIVE SoloLines(_, _, _, _)
SoloLines(hh, data, pos, out) ==
    LET L     == hh.ncols * hh.group
        upto  == HEXY_MIN(pos + L, Len(data))
        chunk == SubSeq(data, pos + 1, upto)
        hb    == [hh EXCEPT !.buf = chunk, !.buf_used = Len(chunk)]
        hr    == IF hh.rev_grp_on
                 THEN [hb EXCEPT !.buf = ReverseGroups(chunk, Len(chunk), hh.group)]
                 ELSE hb
        pa    == hexy_print_address(hh, hh.address)
        line  == Plain(pa.out \o ColumnDigits(hr, 0) \o CharPanel(hr)
                       \o hexy_newline(hr, "eol"))
    IN IF chunk = <<>>
       THEN [out |-> out, ret |-> 0, address |-> hh.address, read |-> pos]
       ELSE IF pa.rc < 0
       THEN [out |-> out \o Plain(pa.out), ret |-> -628, address |-> hh.address,
             read |-> upto]
       ELSE IF AddressOverflows(hh.address, Len(chunk))
       THEN [out |-> out \o line, ret |-> -692, address |-> hh.address, read |-> upto]
       ELSE IF Len(chunk) < L
       THEN [out |-> out \o line \o Plain(hexy_newline(hr, "eol2")), ret |-> 0,
             address |-> U64Add(hh.address, Len(chunk)), read |-> upto]
       ELSE SoloLines([hh EXCEPT !.address = U64Add(hh.address, Len(chunk))],
                      data, upto, out \o line)

\* the first hexy() call on the structure h0 and the bytes data, run alone
Solo(h0, data) ==
    LET r == hexy_config_default(h0)
    IN IF r.rc < 0
       THEN [out |-> <<>>, ret |-> -608, address |-> h0.address, read |-> 0]
       ELSE SoloLines(r.h, data, 0, <<>>)

\* Solo is what the dump of one session gives
C22_SoloReference ==
    (FirstReturned /\ ~sinkFailed) =>
        LET solo == Solo(entry.first, src.b)
        IN /\ Out = solo.out
           /\ ret = solo.ret
           /\ h.address = solo.address
           /\ h.io.read = solo.read
           /\ h.io.wrote = Len(solo.out)

\* a session that has returned from its first call shows what the run alone
\* gives; when its put callback failed, the part of it written until then
AsAlone(s) ==
    (s.pc = "idle" /\ s.calls = 1) =>
        LET solo == Solo(s.entry.first, s.src.b)
            out  == Plain(s.sink)
        IN IF s.sinkFailed
           THEN /\ Len(out) < Len(solo.out)
                /\ out = SubSeq(solo.out, 1, Len(out))
                /\ s.ret < 0
                /\ s.h.io.wrote = Len(out)
                /\ s.h.io.read <= solo.read
           ELSE /\ out = solo.out
                /\ s.ret = solo.ret
                /\ s.h.address = solo.address
                /\ s.h.io.read = solo.read
                /\ s.h.io.wrote = Len(solo.out)

\* C22: in every state of two interleaved sessions, each session that has
\* returned from its first call has the output, the return value, the final
\* address and the counters of its run alone
C22_SessionsIndependent == AsAlone(Session) /\ AsAlone(peer.s)

\* both sessions have returned, their steps were interleaved while both
\* were inside hexy(), and their outputs differ
C22_Witness ==
    /\ peer.mixed
    /\ pc = "idle" /\ calls = 1 /\ ~sinkFailed /\ ret = 0
    /\ peer.s.pc = "idle" /\ peer.s.calls = 1 /\ ~peer.s.sinkFailed /\ peer.s.ret = 0
    /\ Len(sink) > 0 /\ Len(peer.s.sink) > 0
    /\ Plain(sink) # Plain(peer.s.sink)
    /\ h.address # peer.s.h.address

\* one session ends on the address overflow while the other ends normally
C22_WitnessOverflow ==
    /\ peer.mixed
    /\ pc = "idle" /\ calls = 1 /\ ret = -692
    /\ peer.s.pc = "idle" /\ peer.s.calls = 1 /\ peer.s.ret = 0

====
